---- MODULE Spec2Model ----
(***************************************************************************)
(* Webhook ingress-and-projection pipeline (wpphooks).                     *)
(*                                                                         *)
(* The relational database is modelled as committed tables plus, for each  *)
(* worker instance, the uncommitted writes of its open transaction.  A row *)
(* written or locked by an open transaction is locked until that           *)
(* transaction commits or rolls back; a statement that needs a lock held   *)
(* by another transaction waits (its action is disabled).  A plain SELECT  *)
(* reads the transaction's own writes, else the committed row.             *)
(***************************************************************************)
EXTENDS Integers, Sequences, FiniteSets, TLC

(* ------------------------------------------------------------------ *)
(* Bounds of the model                                                  *)
(* ------------------------------------------------------------------ *)
MaxReqs == 2
BatchSize == 1
NowTs == 3
MaxFaults == 2
MaxSkips == 1
SoftFaults == 1

(* Program constants *)
MaxAttempts == 10
MaxErrorLen == 255
TrimKeep == 252

Null == "<null>"
NullTs == 0
NoEvent == [kind |-> "NONE"]

Workers == {"w1", "w2"}

(* ------------------------------------------------------------------ *)
(* Payload documents: the JSON locations the normalizer probes          *)
(* ------------------------------------------------------------------ *)
EmptyDoc ==
  [eventId |-> Null, event |-> Null, status |-> Null,
   tplId |-> Null, tplName |-> Null, tplStatus |-> Null,
   stId |-> Null, stStatus |-> Null, stTs |-> NullTs, wa |-> Null,
   phone |-> Null, ts |-> NullTs, reason |-> Null, errCode |-> Null,
   category |-> Null, errors |-> FALSE, raw |-> Null]

MsgDoc(id, st, t) ==
  [EmptyDoc EXCEPT !.stId = id, !.stStatus = st, !.stTs = t]

FailedDoc(id, t) ==
  [EmptyDoc EXCEPT !.stId = id, !.stStatus = "failed", !.stTs = t,
                   !.errCode = "131051", !.reason = "Unsupported", !.errors = TRUE]

TplDoc(id, st) ==
  [EmptyDoc EXCEPT !.tplId = id, !.tplStatus = st, !.event = "template_status",
                   !.reason = IF st = "REJECTED" THEN "bad-format" ELSE Null,
                   !.category = IF st = "REJECTED" THEN "UTILITY" ELSE Null]

UserDoc(ev, ph, t) ==
  [EmptyDoc EXCEPT !.event = ev, !.phone = ph, !.ts = t]

(* The request bodies of the model: raw is the byte string of the body,   *)
(* doc what JSON.parse yields for it (json bodies only).                  *)
BodyTable ==
  { [raw |-> "m-delivered-1", json |-> TRUE, doc |-> MsgDoc("gs-1", "delivered", 2)],
    [raw |-> "m-sent-1",      json |-> TRUE, doc |-> MsgDoc("gs-1", "sent", 1)],
    [raw |-> "m-read-1",      json |-> TRUE, doc |-> MsgDoc("gs-1", "read", 1)],
    [raw |-> "m-accepted-1",  json |-> TRUE, doc |-> MsgDoc("gs-1", "accepted", 1)],
    [raw |-> "m-failed-1",    json |-> TRUE, doc |-> FailedDoc("gs-1", 2)],
    [raw |-> "m-failed-bare", json |-> TRUE, doc |-> MsgDoc("gs-1", "failed", 1)],
    [raw |-> "m-ev42",        json |-> TRUE,
       doc |-> [MsgDoc("gs-1", "delivered", 2) EXCEPT !.eventId = "ev-42"]],
    [raw |-> "m-nobody",      json |-> TRUE, doc |-> MsgDoc("gs-9", "sent", 1)],
    [raw |-> "m-queued",      json |-> TRUE, doc |-> MsgDoc("gs-1", "queued", 1)],
    [raw |-> "t-approved",    json |-> TRUE, doc |-> TplDoc("tpl-1", "APPROVED")],
    [raw |-> "t-rejected",    json |-> TRUE, doc |-> TplDoc("tpl-1", "REJECTED")],
    [raw |-> "t-review",      json |-> TRUE, doc |-> TplDoc("tpl-1", "IN_REVIEW")],
    [raw |-> "t-pending",     json |-> TRUE,
     doc |-> [TplDoc("tpl-1", "PENDING") EXCEPT !.reason = "bad-format",
                                                !.category = "UTILITY"]],
    [raw |-> "t-other",       json |-> TRUE, doc |-> TplDoc("tpl-9", "APPROVED")],
    [raw |-> "t-other-named", json |-> TRUE,
     doc |-> [TplDoc("tpl-9", "APPROVED") EXCEPT !.tplName = "welcome"]],
    [raw |-> "t-paused",      json |-> TRUE, doc |-> TplDoc("tpl-1", "PAUSED")],
    [raw |-> "u-optin",       json |-> TRUE, doc |-> UserDoc("OPT_IN", "+15551234567", 1)],
    [raw |-> "u-optin-2",     json |-> TRUE, doc |-> UserDoc("OPT_IN", "+15551234567", 2)],
    [raw |-> "u-optout",      json |-> TRUE, doc |-> UserDoc("OPT_OUT", "+15551234567", 2)],
    [raw |-> "u-blocked",     json |-> TRUE, doc |-> UserDoc("BLOCKED", "+15551234567", 2)],
    [raw |-> "u-nophone",     json |-> TRUE, doc |-> UserDoc("OPT_IN", Null, 1)],
    [raw |-> "u-stranger",    json |-> TRUE, doc |-> UserDoc("OPT_IN", "+15550000000", 1)],
    [raw |-> "x-tpl-msg",     json |-> TRUE,
     doc |-> [MsgDoc("gs-1", "delivered", 2) EXCEPT !.tplStatus = "APPROVED"]],
    [raw |-> "x-tpl-user",    json |-> TRUE,
     doc |-> [UserDoc("template_status", "+15551234567", 1) EXCEPT !.tplName = "welcome"]],
    [raw |-> "x-name-msg",    json |-> TRUE,
     doc |-> [MsgDoc("gs-1", "sent", 1) EXCEPT !.tplName = "welcome"]],
    [raw |-> "x-name-user",   json |-> TRUE,
     doc |-> [UserDoc("OPT_IN", "+15551234567", 1) EXCEPT !.tplName = "welcome"]],
    [raw |-> "x-msg-user",    json |-> TRUE,
     doc |-> [MsgDoc("gs-1", "delivered", 2) EXCEPT !.phone = "+15551234567"]],
    [raw |-> "x-hint-only",   json |-> TRUE,
     doc |-> [EmptyDoc EXCEPT !.event = "template_status"]],
    [raw |-> "x-paused-hint", json |-> TRUE,
     doc |-> [EmptyDoc EXCEPT !.event = "template_status", !.status = "PAUSED"]],
    [raw |-> "{}",            json |-> TRUE, doc |-> EmptyDoc],
    [raw |-> "hello",         json |-> FALSE, doc |-> EmptyDoc],
    [raw |-> "",              json |-> FALSE, doc |-> EmptyDoc] }

BodyOf(rawBody) == CHOOSE b \in BodyTable : b.raw = rawBody

(* ------------------------------------------------------------------ *)
(* NormalizerService                                                    *)
(* ------------------------------------------------------------------ *)
IsEmpty(v) == v = Null \/ v = ""

RECURSIVE pickFirst(_)
pickFirst(vals) ==
  IF vals = <<>> THEN Null
  ELSE IF ~IsEmpty(Head(vals)) THEN Head(vals)
  ELSE pickFirst(Tail(vals))

RECURSIVE pickFirstTs(_)
pickFirstTs(vals) ==
  IF vals = <<>> THEN NullTs
  ELSE IF Head(vals) # NullTs THEN Head(vals)
  ELSE pickFirstTs(Tail(vals))

parseTimestamp(v) == IF v = NullTs THEN NullTs ELSE v

mapMessageStatus(value) ==
  IF IsEmpty(value) THEN Null
  ELSE IF value \in {"accepted", "ACCEPTED"} THEN "accepted"
  ELSE IF value \in {"sent", "SENT"} THEN "sent"
  ELSE IF value \in {"delivered", "DELIVERED"} THEN "delivered"
  ELSE IF value \in {"read", "READ"} THEN "read"
  ELSE IF value \in {"failed", "error", "undelivered", "FAILED"} THEN "failed"
  ELSE Null

mapTemplateStatus(value) ==
  IF IsEmpty(value) THEN Null
  ELSE IF value \in {"APPROVED", "approved"} THEN "APPROVED"
  ELSE IF value \in {"REJECTED", "rejected"} THEN "REJECTED"
  ELSE IF value \in {"PENDING", "pending"} THEN "PENDING"
  ELSE IF value \in {"SUBMITTED", "IN_REVIEW", "submitted", "in_review"} THEN "SUBMITTED"
  ELSE Null

mapConsentEvent(value) ==
  IF IsEmpty(value) THEN Null
  ELSE IF value \in {"OPT_IN", "SUBSCRIBE", "CONSENT_GRANTED"} THEN "OPT_IN"
  ELSE IF value \in {"OPT_OUT", "UNSUBSCRIBE", "CONSENT_REVOKED"} THEN "OPT_OUT"
  ELSE IF value \in {"BLOCKED", "BLOCK", "USER_BLOCKED"} THEN "BLOCKED"
  ELSE Null

hintIncludesTemplate(hint) == hint \in {"template_status", "template", "TEMPLATE_STATUS"}

extractProviderEventId(doc) == pickFirst(<<doc.eventId>>)

normalizeTemplate(doc) ==
  LET templateStatus == mapTemplateStatus(pickFirst(<<doc.tplStatus, doc.status, doc.stStatus>>))
      templateName == pickFirst(<<doc.tplName>>)
      templateProviderId == pickFirst(<<doc.tplId>>)
      templateSignal == templateStatus # Null \/ templateName # Null \/ templateProviderId # Null
  IN IF ~templateSignal THEN NoEvent
     ELSE IF templateStatus = Null /\ ~hintIncludesTemplate(doc.event) THEN NoEvent
     ELSE [kind |-> "TEMPLATE",
           providerEventId |-> extractProviderEventId(doc),
           templateName |-> templateName,
           templateProviderId |-> templateProviderId,
           templateStatus |-> templateStatus,
           rejectionReason |-> pickFirst(<<doc.reason>>),
           correctCategory |-> pickFirst(<<doc.category>>),
           eventAt |-> parseTimestamp(pickFirstTs(<<doc.ts, doc.stTs>>))]

normalizeMessage(doc) ==
  LET messageId == pickFirst(<<doc.stId>>)
      whatsappMessageId == pickFirst(<<doc.wa>>)
      status == mapMessageStatus(pickFirst(<<doc.stStatus, doc.status, doc.tplStatus>>))
      templateHint == pickFirst(<<doc.tplName>>)
      hasMessageSignals == messageId # Null \/ whatsappMessageId # Null \/ status # Null
  IN IF messageId = Null /\ whatsappMessageId = Null /\ templateHint # Null THEN NoEvent
     ELSE IF ~hasMessageSignals THEN NoEvent
     ELSE [kind |-> "MESSAGE",
           providerEventId |-> extractProviderEventId(doc),
           messageId |-> messageId,
           whatsappMessageId |-> whatsappMessageId,
           status |-> status,
           eventAt |-> parseTimestamp(pickFirstTs(<<doc.stTs, doc.ts>>)),
           errorCode |-> pickFirst(<<doc.errCode>>),
           errorReason |-> pickFirst(<<doc.reason>>),
           errorPayload |-> doc.errors]

normalizeUser(doc) ==
  LET consentEvent == mapConsentEvent(pickFirst(<<doc.event, doc.status, doc.tplStatus, doc.stStatus>>))
      phone == pickFirst(<<doc.phone>>)
  IN IF consentEvent = Null /\ phone = Null THEN NoEvent
     ELSE [kind |-> "USER",
           providerEventId |-> extractProviderEventId(doc),
           phone |-> phone,
           consentEvent |-> consentEvent,
           eventAt |-> parseTimestamp(pickFirstTs(<<doc.ts, doc.stTs>>))]

(* a normalizer that tries the message rule before the template rule *)
normalizeMessageFirst(doc) ==
  IF normalizeMessage(doc).kind # "NONE" THEN normalizeMessage(doc)
  ELSE IF normalizeTemplate(doc).kind # "NONE" THEN normalizeTemplate(doc)
  ELSE IF normalizeUser(doc).kind # "NONE" THEN normalizeUser(doc)
  ELSE [kind |-> "UNKNOWN",
        providerEventId |-> extractProviderEventId(doc),
        eventAt |-> parseTimestamp(pickFirstTs(<<doc.ts>>))]

normalize(doc) ==
  IF normalizeTemplate(doc).kind # "NONE" THEN normalizeTemplate(doc)
  ELSE IF normalizeMessage(doc).kind # "NONE" THEN normalizeMessage(doc)
  ELSE IF normalizeUser(doc).kind # "NONE" THEN normalizeUser(doc)
  ELSE [kind |-> "UNKNOWN",
        providerEventId |-> extractProviderEventId(doc),
        eventAt |-> parseTimestamp(pickFirstTs(<<doc.ts>>))]

(* ------------------------------------------------------------------ *)
(* Configuration (AppConfigService)                                     *)
(* ------------------------------------------------------------------ *)
GupshupWebhookSecret == "s3cret"
Secrets == {"s3cret", "wrong", "", Null}
AppIds == {"A", "B"}

(* ------------------------------------------------------------------ *)
(* State                                                                *)
(* ------------------------------------------------------------------ *)
VARIABLES
  raw,        \* wpp_webhook_event_raw, committed rows in id order
  reqs,       \* HTTP requests to the ingest endpoint, in arrival order
  rcpt,       \* wpp_campaign_recipient, committed
  tpl,        \* wpp_template, committed
  ver,        \* latest wpp_template_version of each template, committed
  cev,        \* whatsapp_marketing_consent_event, committed (append-only)
  cur,        \* whatsapp_marketing_current, committed
  wk,         \* per worker instance: position in the tick and its open transaction
  instances,  \* the worker instances (process replicas) that are running
  blockedAsOptOut, \* BLOCKED_AS_OPT_OUT
  faultsLeft, \* how many more statements the database will fail
  proc,       \* the processes: their interval timer, tick guard and pool
  log         \* the lines the structured logger has emitted

vars ==
  <<raw, reqs, rcpt, tpl, ver, cev, cur, wk, instances, log, blockedAsOptOut, faultsLeft, proc>>

(* ------------------------------------------------------------------ *)
(* Error messages: the text and its length in characters                *)
(* ------------------------------------------------------------------ *)
(* cut: the text is a prefix of the message followed by "..."            *)
NoMsg == [text |-> Null, len |-> 0, cut |-> FALSE]
Msg(text, len) == [text |-> text, len |-> len, cut |-> FALSE]

trimError(message) ==
  IF message.len = 0 THEN NoMsg
  ELSE IF message.len <= MaxErrorLen THEN message
  ELSE [text |-> message.text, len |-> TrimKeep + 3, cut |-> TRUE]

(* ------------------------------------------------------------------ *)
(* Log sanitizer (log-sanitizer.util.ts)                                *)
(* ------------------------------------------------------------------ *)
(* A string is a sequence of runs [c, n]: n characters of class c, with *)
(* "d" a digit, "+" the plus sign, "s" a character of [\s().-] (here a  *)
(* space), "a" any other character and "*" the asterisk.                *)
Run(c, n) == [c |-> c, n |-> n]

RECURSIVE Length(_)
Length(str) == IF str = <<>> THEN 0 ELSE Head(str).n + Length(Tail(str))

(* String.prototype.trim *)
RECURSIVE trimStart(_)
trimStart(str) ==
  IF str # <<>> /\ Head(str).c = "s" THEN trimStart(Tail(str)) ELSE str

RECURSIVE trimEnd(_)
trimEnd(str) ==
  IF str # <<>> /\ str[Len(str)].c = "s" THEN trimEnd(SubSeq(str, 1, Len(str) - 1)) ELSE str

trim(str) == trimEnd(trimStart(str))

(* value.slice(0, k) *)
RECURSIVE sliceFirst(_, _)
sliceFirst(str, k) ==
  IF str = <<>> \/ k <= 0 THEN <<>>
  ELSE IF Head(str).n <= k THEN <<Head(str)>> \o sliceFirst(Tail(str), k - Head(str).n)
  ELSE <<Run(Head(str).c, k)>>

(* value.slice(-k) *)
RECURSIVE sliceLast(_, _)
sliceLast(str, k) ==
  IF str = <<>> \/ k <= 0 THEN <<>>
  ELSE IF str[Len(str)].n <= k
    THEN sliceLast(SubSeq(str, 1, Len(str) - 1), k - str[Len(str)].n) \o <<str[Len(str)]>>
  ELSE <<Run(str[Len(str)].c, k)>>

RECURSIVE countDigits(_)
countDigits(str) ==
  IF str = <<>> THEN 0
  ELSE (IF Head(str).c = "d" THEN Head(str).n ELSE 0) + countDigits(Tail(str))

SENSITIVE_KEY_PATTERN(key) ==
  key \in {"secret", "token", "password", "authorization", "auth", "api_key", "signature"}

PHONE_KEY_PATTERN(key) == key \in {"phone", "msisdn", "wa_id", "whatsapp"}

MaxDepth == 4
MaxStringLength == 400

(* /^\+?[\d\s().-]+$/ on the trimmed input, then 8 to 15 digits in all *)
looksLikePhone(input) ==
  LET trimmed == trim(input)
      body == IF trimmed # <<>> /\ Head(trimmed) = Run("+", 1) THEN Tail(trimmed) ELSE trimmed
  IN /\ body # <<>>
     /\ \A i \in 1..Len(body) : body[i].c \in {"d", "s"}
     /\ countDigits(input) >= 8 /\ countDigits(input) <= 15

maskPhone(phone) ==
  IF phone = <<>> THEN <<Run("a", 4)>>
  ELSE <<Run("*", 3)>> \o sliceLast(trim(phone), 4)

sanitizeString(value, maxLength, keyHint) ==
  IF keyHint # Null /\ PHONE_KEY_PATTERN(keyHint) THEN maskPhone(value)
  ELSE IF looksLikePhone(value) THEN maskPhone(value)
  ELSE IF Length(value) <= maxLength THEN value
  ELSE sliceFirst(value, maxLength) \o <<Run("a", 16)>>

(* values: null, string, number (its digits), boolean, array, object;   *)
(* parsed JSON has no cycles, and the containers here stay under        *)
(* maxArrayItems and maxObjectKeys                                      *)
Str(s) == [t |-> "str", s |-> s]
Arr(items) == [t |-> "arr", items |-> items]
Obj(f) == [t |-> "obj", f |-> f]

RECURSIVE sanitizeValue(_, _, _, _)
sanitizeValue(value, maxStringLength, depth, keyHint) ==
  CASE value.t = "null" -> value
    [] value.t = "str" -> Str(sanitizeString(value.s, maxStringLength, keyHint))
    [] value.t \in {"num", "bool"} -> value
    [] value.t = "arr" ->
         IF depth >= MaxDepth THEN Str(<<Run("a", 10)>>)
         ELSE Arr([i \in 1..Len(value.items) |->
                     sanitizeValue(value.items[i], maxStringLength, depth + 1, keyHint)])
    [] value.t = "obj" ->
         IF depth >= MaxDepth THEN Str(<<Run("a", 8)>>)
         ELSE Obj([key \in DOMAIN value.f |->
                IF SENSITIVE_KEY_PATTERN(key) THEN Str(<<Run("a", 10)>>)
                ELSE IF PHONE_KEY_PATTERN(key) /\ value.f[key].t = "str"
                  THEN Str(maskPhone(value.f[key].s))
                ELSE sanitizeValue(value.f[key], maxStringLength, depth + 1, key)])

sanitizeForLog(value) == sanitizeValue(value, MaxStringLength, 0, Null)

buildPayloadPreview(payload, maxStringLength) == sanitizeValue(payload, maxStringLength, 0, Null)

(* the values that are logged: phone numbers as strings in several      *)
(* spellings and as numbers, and text without a phone, alone, in an     *)
(* array, under a phone key, a neutral key and a sensitive key, nested  *)
(* up to the depth cap                                                  *)
LogLeaves ==
  { Str(<<Run("+", 1), Run("d", 11)>>),
    Str(<<Run("s", 1), Run("d", 4), Run("s", 1), Run("d", 7)>>),
    Str(<<Run("a", 5), Run("d", 11)>>),
    Str(<<Run("d", 7)>>),
    Str(<<Run("a", 5)>>),
    Str(<<>>),
    [t |-> "num", s |-> <<Run("d", 11)>>],
    [t |-> "num", s |-> <<Run("d", 2)>>],
    [t |-> "null"] }

RECURSIVE Nest(_, _)
Nest(value, k) == IF k = 0 THEN value ELSE Nest(Obj([x \in {"data"} |-> value]), k - 1)

LogValues ==
  LogLeaves
    \cup { Nest(Obj([x \in {key} |-> leaf]), k) :
             key \in {"phone", "wa_id", "from", "token"}, leaf \in LogLeaves,
             k \in 0..MaxDepth }
    \cup { Obj([x \in {key} |-> Arr(<<leaf>>)]) :
             key \in {"phone", "wa_id", "from", "token"}, leaf \in LogLeaves }

MaxLog == 1

(* StructuredLoggerService: a line with sanitized metadata *)
LogLine(meta) ==
  /\ Len(log) < MaxLog
  /\ log' = Append(log, [meta |-> meta, out |-> sanitizeForLog(meta)])
  /\ UNCHANGED <<raw, reqs, rcpt, tpl, ver, cev, cur, wk, instances, blockedAsOptOut,
                 faultsLeft, proc>>

(* a line with a payload preview (webhook_payload_observed,             *)
(* worker_event_processing_started)                                     *)
LogPreview(payload, chars) ==
  /\ Len(log) < MaxLog
  /\ log' = Append(log, [meta |-> payload, out |-> buildPayloadPreview(payload, chars)])
  /\ UNCHANGED <<raw, reqs, rcpt, tpl, ver, cev, cur, wk, instances, blockedAsOptOut,
                 faultsLeft, proc>>

(* ------------------------------------------------------------------ *)
(* WebhookService                                                       *)
(* ------------------------------------------------------------------ *)
(* a check that lets a request without the header through *)
validateSecretOptional(providedSecret) ==
  IF providedSecret = Null \/ providedSecret = "" THEN TRUE
  ELSE providedSecret = GupshupWebhookSecret

validateSecret(providedSecret) ==
  IF providedSecret = Null \/ providedSecret = "" THEN FALSE
  ELSE providedSecret = GupshupWebhookSecret

parseRawBody(rawBody) ==
  IF rawBody = "" THEN
    [normalizedPayload |-> EmptyDoc,
     payloadJson |-> [EmptyDoc EXCEPT !.raw = rawBody],
     format |-> "empty"]
  ELSE IF BodyOf(rawBody).json THEN
    [normalizedPayload |-> BodyOf(rawBody).doc,
     payloadJson |-> BodyOf(rawBody).doc,
     format |-> "json"]
  ELSE
    [normalizedPayload |-> [EmptyDoc EXCEPT !.raw = rawBody],
     payloadJson |-> [EmptyDoc EXCEPT !.raw = rawBody],
     format |-> "text"]

pickEventStatus(normalized) ==
  IF normalized.kind = "MESSAGE" THEN normalized.status
  ELSE IF normalized.kind = "TEMPLATE" THEN normalized.templateStatus
  ELSE IF normalized.kind = "USER" THEN normalized.consentEvent
  ELSE Null

pickMessageId(normalized) ==
  IF normalized.kind = "MESSAGE" THEN normalized.messageId ELSE Null

pickWhatsappMessageId(normalized) ==
  IF normalized.kind = "MESSAGE" THEN normalized.whatsappMessageId ELSE Null

pickTemplateName(normalized) ==
  IF normalized.kind = "TEMPLATE" THEN normalized.templateName ELSE Null

pickTemplateProviderId(normalized) ==
  IF normalized.kind = "TEMPLATE" THEN normalized.templateProviderId ELSE Null

(* Date.toISOString *)
toISOString(t) ==
  <<"1970-01-01T00:00:01.000Z", "1970-01-01T00:00:02.000Z",
    "1970-01-01T00:00:03.000Z", "1970-01-01T00:00:04.000Z",
    "1970-01-01T00:00:05.000Z">>[t]

OrEmpty(v) == IF v = Null THEN "" ELSE v

(* The key is the SHA-256 digest of the material; the digest is taken to  *)
(* be collision-free, so the model keeps the material itself, as the      *)
(* sequence of the strings that are concatenated.                         *)
sha256(material) == <<"sha256", material>>

(* a key that also hashes something of the running process *)
buildDedupeKeyPerProcess(appId, normalized, rawBody) ==
  sha256(<<appId, "|", rawBody, "|", IF raw = <<>> THEN "fresh" ELSE "warm">>)

buildDedupeKey(appId, normalized, rawBody) ==
  LET providerEventId == normalized.providerEventId
      eventKind == normalized.kind
      messageId == pickMessageId(normalized)
      eventStatus == pickEventStatus(normalized)
      timestamp == IF normalized.eventAt # NullTs THEN toISOString(normalized.eventAt) ELSE ""
  IN IF providerEventId # Null
       THEN sha256(<<appId, "|", eventKind, "|", providerEventId>>)
     ELSE IF messageId # Null \/ eventStatus # Null \/ timestamp # ""
       THEN sha256(<<appId, "|", eventKind, "|", OrEmpty(messageId), "|",
                     OrEmpty(eventStatus), "|", timestamp>>)
     ELSE sha256(<<rawBody>>)

(* ------------------------------------------------------------------ *)
(* RawRepo.insertRawEvent                                               *)
(* ------------------------------------------------------------------ *)
NewRawRow(id, input) ==
  [id |-> id,
   app_id |-> input.appId,
   event_kind |-> input.eventKind,
   provider_event_id |-> input.providerEventId,
   message_id |-> input.messageId,
   whatsapp_message_id |-> input.whatsappMessageId,
   template_name |-> input.templateName,
   template_provider_id |-> input.templateProviderId,
   event_status |-> input.eventStatus,
   received_at |-> id,
   payload_json |-> input.payloadJson,
   processed |-> 0,
   attempts |-> 0,
   last_error |-> NoMsg,
   processed_at |-> NullTs,
   dedupe_key |-> input.dedupeKey,
   \* history of the row, kept with it so that it commits and rolls back with it
   tried |-> 0,
   failed |-> 0,
   last_reason |-> NoMsg,
   done_by |-> {}]

KeyExists(table, key) == \E i \in 1..Len(table) : table[i].dedupe_key = key

(* the insert as it would be without the unique key on dedupe_key *)
insertRawEventNoUnique(table, input) ==
  [table |-> Append(table, NewRawRow(Len(table) + 1, input)), inserted |-> TRUE]

(* INSERT ... ON DUPLICATE KEY UPDATE id = id: one atomic statement *)
insertRawEvent(table, input) ==
  IF KeyExists(table, input.dedupeKey)
    THEN [table |-> table, inserted |-> FALSE]
    ELSE [table |-> Append(table, NewRawRow(Len(table) + 1, input)), inserted |-> TRUE]

(* WebhookService.ingest up to the insert: the input row *)
IngestInput(appId, rawBody) ==
  LET parsedPayload == parseRawBody(rawBody)
      normalized == normalize(parsedPayload.normalizedPayload)
  IN [appId |-> appId,
      eventKind |-> normalized.kind,
      providerEventId |-> normalized.providerEventId,
      messageId |-> pickMessageId(normalized),
      whatsappMessageId |-> pickWhatsappMessageId(normalized),
      templateName |-> pickTemplateName(normalized),
      templateProviderId |-> pickTemplateProviderId(normalized),
      eventStatus |-> pickEventStatus(normalized),
      payloadJson |-> parsedPayload.payloadJson,
      dedupeKey |-> buildDedupeKey(appId, normalized, rawBody)]

(* ------------------------------------------------------------------ *)
(* WebhookController.receiveGupshupWebhook                              *)
(* ------------------------------------------------------------------ *)
IngestBodies == {"m-ev42", "m-sent-1", "u-optin", "hello", "{}", ""}

(* The request arrives; the secret is checked before anything else. *)
ReceiveGupshupWebhook(appId, secret, rawBody) ==
  /\ Len(reqs) < MaxReqs
  /\ reqs' = Append(reqs,
       [appId |-> appId, rawBody |-> rawBody, secret |-> secret,
        pc |-> IF validateSecret(secret) THEN "ingest" ELSE "done",
        response |-> IF validateSecret(secret) THEN 0 ELSE 401,
        inserted |-> FALSE, threw |-> FALSE, dedupeKey |-> <<>>])
  /\ UNCHANGED <<raw, rcpt, tpl, ver, cev, cur, wk, instances, log, blockedAsOptOut, faultsLeft, proc>>

(* await this.webhookService.ingest(...): the insert statement completes *)
Ingest(i) ==
  /\ reqs[i].pc = "ingest"
  /\ LET persisted == insertRawEvent(raw, IngestInput(reqs[i].appId, reqs[i].rawBody))
     IN /\ raw' = persisted.table
        /\ reqs' = [reqs EXCEPT ![i].pc = "ingested", ![i].inserted = persisted.inserted,
                                ![i].dedupeKey =
                                  IngestInput(reqs[i].appId, reqs[i].rawBody).dedupeKey]
  /\ UNCHANGED <<rcpt, tpl, ver, cev, cur, wk, instances, log, blockedAsOptOut, faultsLeft, proc>>

(* a request path that tries the insert again after it failed *)
IngestThrowsAndRetries(i) ==
  /\ reqs[i].pc = "ingest"
  /\ faultsLeft > 0
  /\ faultsLeft' = faultsLeft - 1
  /\ reqs' = [reqs EXCEPT ![i].threw = TRUE]
  /\ UNCHANGED <<raw, rcpt, tpl, ver, cev, cur, wk, instances, log, blockedAsOptOut, proc>>

(* the insert statement fails (database unavailable): ingest throws *)
IngestThrows(i) ==
  /\ reqs[i].pc = "ingest"
  /\ faultsLeft > 0
  /\ faultsLeft' = faultsLeft - 1
  /\ reqs' = [reqs EXCEPT ![i].pc = "threw", ![i].threw = TRUE]
  /\ UNCHANGED <<raw, rcpt, tpl, ver, cev, cur, wk, instances, log, blockedAsOptOut, proc>>

(* a handler that acknowledges without awaiting the insert *)
RespondBeforeInsert(i) ==
  /\ reqs[i].pc \in {"ingest", "ingested", "threw"}
  /\ reqs' = [reqs EXCEPT ![i].pc = "done",
                          ![i].response = IF reqs[i].pc = "threw" THEN 500 ELSE 200]
  /\ UNCHANGED <<raw, rcpt, tpl, ver, cev, cur, wk, instances, log, blockedAsOptOut, faultsLeft, proc>>

(* return { ok: true } / throw new InternalServerErrorException *)
Respond(i) ==
  /\ reqs[i].pc \in {"ingested", "threw"}
  /\ reqs' = [reqs EXCEPT ![i].pc = "done",
                          ![i].response = IF reqs[i].pc = "ingested" THEN 200 ELSE 500]
  /\ UNCHANGED <<raw, rcpt, tpl, ver, cev, cur, wk, instances, log, blockedAsOptOut, faultsLeft, proc>>

(* ------------------------------------------------------------------ *)
(* Tables the projection reads and writes                               *)
(* ------------------------------------------------------------------ *)
RcptIds == {"r1"}
TplIds == {"t11"}
CurKeys == {<<"u1", "c3">>}

EmptyFn == [x \in {} |-> Null]
Put(f, k, v) == [x \in (DOMAIN f) \cup {k} |-> IF x = k THEN v ELSE f[x]]

(* IntegrationRepo.findActiveByAppId: wpp_company_integration is read-only *)
findActiveByAppId(appId) ==
  IF appId = "A" THEN [id |-> "i7", company_id |-> "c3", found |-> TRUE]
  ELSE [id |-> Null, company_id |-> Null, found |-> FALSE]

(* ConsentRepo.findUserIdByPhone: the user table is read-only *)
findUserIdByPhone(phone) == IF phone = "+15551234567" THEN "u1" ELSE Null

RecipientStatuses ==
  {"PENDING", "SKIPPED", "SUBMITTED", "RETRYING", "SENT", "DELIVERED", "READ", "FAILED"}

STATUS_RANK(status) ==
  CASE status \in {"PENDING", "SKIPPED"} -> 0
    [] status \in {"SUBMITTED", "RETRYING"} -> 1
    [] status = "SENT" -> 2
    [] status = "DELIVERED" -> 3
    [] status = "READ" -> 4
    [] status = "FAILED" -> 5

TARGET_STATUS_BY_MESSAGE_EVENT(status) ==
  CASE status = "accepted" -> "SUBMITTED"
    [] status = "sent" -> "SENT"
    [] status = "delivered" -> "DELIVERED"
    [] status = "read" -> "READ"
    [] status = "failed" -> "FAILED"

NewRecipient(status) ==
  [status |-> status,
   gupshup_message_id |-> "gs-1",
   whatsapp_message_id |-> Null,
   accepted_at |-> NullTs,
   sent_at |-> NullTs,
   reached_at |-> NullTs,
   failed_at |-> NullTs,
   last_event_at |-> NullTs,
   last_error_code |-> Null,
   last_error_reason |-> Null,
   error |-> FALSE,
   writers |-> {}]

NewTemplate ==
  [integration_id |-> "i7", provider_template_id |-> "tpl-1",
   company_id |-> "c3", name |-> "welcome",
   status |-> "DRAFT", rejection_reason |-> Null, correct_category |-> Null,
   writers |-> {}]

NewVersion ==
  [present |-> TRUE, status |-> "DRAFT",
   submitted_at |-> NullTs, approved_at |-> NullTs, rejected_at |-> NullTs,
   rejection_reason |-> Null, writers |-> {}]

NoCurrent ==
  [present |-> FALSE, status |-> "UNKNOWN",
   last_opt_in_at |-> NullTs, last_opt_out_at |-> NullTs, writers |-> {}]

(* ------------------------------------------------------------------ *)
(* RecipientRepo                                                        *)
(* ------------------------------------------------------------------ *)
(* a transition rule that upgrades whenever the ranks differ *)
evaluateTransitionByRankOnly(current, target, sourceStatus) ==
  IF sourceStatus = "failed" THEN
    (IF current = "FAILED" THEN "SAME" ELSE "UPGRADE")
  ELSE IF STATUS_RANK(target) # STATUS_RANK(current) THEN "UPGRADE"
  ELSE "SAME"

(* a transition rule in which a failed event also supersedes READ *)
evaluateTransitionFailedOverRead(current, target, sourceStatus) ==
  IF sourceStatus = "failed" THEN
    (IF current = "FAILED" THEN "SAME" ELSE "UPGRADE")
  ELSE IF current = "FAILED" THEN "IGNORE"
  ELSE IF STATUS_RANK(target) > STATUS_RANK(current) THEN "UPGRADE"
  ELSE IF STATUS_RANK(target) = STATUS_RANK(current) /\ target = current THEN "SAME"
  ELSE "IGNORE"

(* a transition rule in which a failed event is ignored from DELIVERED on *)
evaluateTransitionFailedBelowDelivered(current, target, sourceStatus) ==
  IF sourceStatus = "failed" THEN
    (IF current \in {"DELIVERED", "READ"} THEN "IGNORE"
     ELSE IF current = "FAILED" THEN "SAME"
     ELSE "UPGRADE")
  ELSE IF current = "FAILED" THEN "IGNORE"
  ELSE IF STATUS_RANK(target) > STATUS_RANK(current) THEN "UPGRADE"
  ELSE IF STATUS_RANK(target) = STATUS_RANK(current) /\ target = current THEN "SAME"
  ELSE "IGNORE"

(* a transition rule in which an event of a lower rank still reaches the *)
(* timestamp writes                                                      *)
evaluateTransitionLowerIsSame(current, target, sourceStatus) ==
  IF sourceStatus = "failed" THEN
    (IF current = "READ" THEN "IGNORE"
     ELSE IF current = "FAILED" THEN "SAME"
     ELSE "UPGRADE")
  ELSE IF current = "FAILED" THEN "IGNORE"
  ELSE IF STATUS_RANK(target) > STATUS_RANK(current) THEN "UPGRADE"
  ELSE "SAME"

(* a transition rule in which an event of equal rank counts as the same *)
(* status                                                                *)
evaluateTransitionEqualRankIsSame(current, target, sourceStatus) ==
  IF sourceStatus = "failed" THEN
    (IF current = "READ" THEN "IGNORE"
     ELSE IF current = "FAILED" THEN "SAME"
     ELSE "UPGRADE")
  ELSE IF current = "FAILED" THEN "IGNORE"
  ELSE IF STATUS_RANK(target) > STATUS_RANK(current) THEN "UPGRADE"
  ELSE IF STATUS_RANK(target) = STATUS_RANK(current) THEN "SAME"
  ELSE "IGNORE"

(* a rule that takes every status other than the current one as an      *)
(* upgrade: the last event applied decides                              *)
evaluateTransitionLastWins(current, target, sourceStatus) ==
  IF sourceStatus = "failed" THEN
    (IF current = "READ" THEN "IGNORE"
     ELSE IF current = "FAILED" THEN "SAME"
     ELSE "UPGRADE")
  ELSE IF current = "FAILED" THEN "IGNORE"
  ELSE IF target # current THEN "UPGRADE"
  ELSE "SAME"

evaluateTransition(current, target, sourceStatus) ==
  IF sourceStatus = "failed" THEN
    (IF current = "READ" THEN "IGNORE"
     ELSE IF current = "FAILED" THEN "SAME"
     ELSE "UPGRADE")
  ELSE IF current = "FAILED" THEN "IGNORE"
  ELSE IF STATUS_RANK(target) > STATUS_RANK(current) THEN "UPGRADE"
  ELSE IF STATUS_RANK(target) = STATUS_RANK(current) /\ target = current THEN "SAME"
  ELSE "IGNORE"

shouldSetLastEventAt(current, candidate) ==
  IF current = NullTs THEN TRUE ELSE candidate > current

(* findRecipient: by gupshup_message_id, then by whatsapp_message_id; *)
(* table is the table as the reading transaction sees it              *)
findRecipient(table, messageId, whatsappMessageId) ==
  IF messageId # Null /\ \E r \in RcptIds : table[r].gupshup_message_id = messageId
    THEN CHOOSE r \in RcptIds : table[r].gupshup_message_id = messageId
  ELSE IF whatsappMessageId # Null
          /\ \E r \in RcptIds : table[r].whatsapp_message_id = whatsappMessageId
    THEN CHOOSE r \in RcptIds : table[r].whatsapp_message_id = whatsappMessageId
  ELSE Null

(* the column assignments with reached_at collected for delivered events *)
(* only                                                                  *)
MessageUpdatesReachedOnDelivered(recipient, event) ==
  LET eventAt == IF event.eventAt # NullTs THEN event.eventAt ELSE NowTs
      targetStatus == TARGET_STATUS_BY_MESSAGE_EVENT(event.status)
      transition == evaluateTransition(recipient.status, targetStatus, event.status)
      nextStatus ==
        IF transition = "UPGRADE" \/ (event.status = "failed" /\ recipient.status # "FAILED")
          THEN targetStatus ELSE Null
      u1 == IF nextStatus # Null /\ nextStatus # recipient.status
              THEN Put(EmptyFn, "status", nextStatus) ELSE EmptyFn
      u2 == IF recipient.whatsapp_message_id = Null /\ event.whatsappMessageId # Null
              THEN Put(u1, "whatsapp_message_id", event.whatsappMessageId) ELSE u1
      u3 == IF transition = "UPGRADE" /\ shouldSetLastEventAt(recipient.last_event_at, eventAt)
              THEN Put(u2, "last_event_at", eventAt) ELSE u2
      u4 == IF event.status = "accepted" /\ recipient.accepted_at = NullTs
              THEN Put(u3, "accepted_at", eventAt) ELSE u3
      u5 == IF event.status = "sent" /\ recipient.sent_at = NullTs
              THEN Put(u4, "sent_at", eventAt) ELSE u4
      u6 == IF event.status = "delivered" /\ recipient.reached_at = NullTs
              THEN Put(u5, "reached_at", eventAt) ELSE u5
      failedRule == event.status = "failed" /\ recipient.status # "READ"
      u7 == IF failedRule /\ recipient.failed_at = NullTs
              THEN Put(u6, "failed_at", eventAt) ELSE u6
      u8 == IF failedRule /\ event.errorCode # Null
              THEN Put(u7, "last_error_code", event.errorCode) ELSE u7
      u9 == IF failedRule /\ event.errorReason # Null
              THEN Put(u8, "last_error_reason", event.errorReason) ELSE u8
      u10 == IF failedRule /\ event.errorPayload
              THEN Put(u9, "error", TRUE) ELSE u9
  IN IF transition = "IGNORE" THEN EmptyFn ELSE u10

(* The column assignments applyMessageEvent collects for its UPDATE, from *)
(* the recipient row it has read.                                         *)
MessageUpdates(recipient, event) ==
  LET eventAt == IF event.eventAt # NullTs THEN event.eventAt ELSE NowTs
      targetStatus == TARGET_STATUS_BY_MESSAGE_EVENT(event.status)
      transition == evaluateTransition(recipient.status, targetStatus, event.status)
      nextStatus ==
        IF transition = "UPGRADE" \/ (event.status = "failed" /\ recipient.status # "FAILED")
          THEN targetStatus ELSE Null
      u1 == IF nextStatus # Null /\ nextStatus # recipient.status
              THEN Put(EmptyFn, "status", nextStatus) ELSE EmptyFn
      u2 == IF recipient.whatsapp_message_id = Null /\ event.whatsappMessageId # Null
              THEN Put(u1, "whatsapp_message_id", event.whatsappMessageId) ELSE u1
      u3 == IF transition = "UPGRADE" /\ shouldSetLastEventAt(recipient.last_event_at, eventAt)
              THEN Put(u2, "last_event_at", eventAt) ELSE u2
      u4 == IF event.status = "accepted" /\ recipient.accepted_at = NullTs
              THEN Put(u3, "accepted_at", eventAt) ELSE u3
      u5 == IF event.status = "sent" /\ recipient.sent_at = NullTs
              THEN Put(u4, "sent_at", eventAt) ELSE u4
      u6 == IF event.status \in {"delivered", "read"} /\ recipient.reached_at = NullTs
              THEN Put(u5, "reached_at", eventAt) ELSE u5
      failedRule == event.status = "failed" /\ recipient.status # "READ"
      u7 == IF failedRule /\ recipient.failed_at = NullTs
              THEN Put(u6, "failed_at", eventAt) ELSE u6
      u8 == IF failedRule /\ event.errorCode # Null
              THEN Put(u7, "last_error_code", event.errorCode) ELSE u7
      u9 == IF failedRule /\ event.errorReason # Null
              THEN Put(u8, "last_error_reason", event.errorReason) ELSE u8
      u10 == IF failedRule /\ event.errorPayload
              THEN Put(u9, "error", TRUE) ELSE u9
  IN IF transition = "IGNORE" THEN EmptyFn ELSE u10

(* UPDATE wpp_campaign_recipient SET <updates> WHERE id = ?: the listed  *)
(* columns are assigned, every other column keeps the row's value.       *)
ApplyUpdates(row, updates) ==
  [c \in DOMAIN row |-> IF c \in DOMAIN updates THEN updates[c] ELSE row[c]]

(* applyMessageEvent run alone on a row: the read, the assignments and  *)
(* the UPDATE with nothing in between                                    *)
applyMessageEvent(recipient, event) ==
  ApplyUpdates(recipient, MessageUpdates(recipient, event))

(* ------------------------------------------------------------------ *)
(* TemplateRepo                                                         *)
(* ------------------------------------------------------------------ *)
findTemplateByProviderId(table, integrationId, providerTemplateId) ==
  IF \E t \in TplIds : /\ table[t].integration_id = integrationId
                       /\ table[t].provider_template_id = providerTemplateId
    THEN CHOOSE t \in TplIds : /\ table[t].integration_id = integrationId
                               /\ table[t].provider_template_id = providerTemplateId
    ELSE Null

findTemplateByName(table, companyId, templateName) ==
  IF \E t \in TplIds : table[t].company_id = companyId /\ table[t].name = templateName
    THEN CHOOSE t \in TplIds : table[t].company_id = companyId /\ table[t].name = templateName
    ELSE Null

(* an update that leaves the two columns alone unless the status is     *)
(* REJECTED                                                             *)
updateTemplateStatusKeepsReason(row, status, rejectionReason, correctCategory) ==
  [row EXCEPT !.status = status,
              !.rejection_reason = IF status = "REJECTED" THEN rejectionReason ELSE @,
              !.correct_category = IF status = "REJECTED" THEN correctCategory ELSE @]

updateTemplateStatus(row, status, rejectionReason, correctCategory) ==
  [row EXCEPT !.status = status,
              !.rejection_reason = IF status = "REJECTED" THEN rejectionReason ELSE Null,
              !.correct_category = IF status = "REJECTED" THEN correctCategory ELSE Null]

updateLatestTemplateVersion(version, status, rejectionReason, eventAt) ==
  LET timestamp == IF eventAt # NullTs THEN eventAt ELSE NowTs
  IN IF ~version.present THEN version
     ELSE [version EXCEPT
        !.status = status,
        !.submitted_at = IF status = "SUBMITTED" /\ @ = NullTs THEN timestamp ELSE @,
        !.approved_at = IF status = "APPROVED" /\ @ = NullTs THEN timestamp ELSE @,
        !.rejected_at = IF status = "REJECTED" /\ @ = NullTs THEN timestamp ELSE @,
        !.rejection_reason = IF status = "REJECTED" THEN rejectionReason ELSE @]

(* ------------------------------------------------------------------ *)
(* ConsentRepo                                                          *)
(* ------------------------------------------------------------------ *)
(* a maxDate that takes the time of the event at hand *)
maxDateOfEvent(existing, candidate) == candidate

maxDate(existing, candidate) ==
  IF existing = NullTs THEN candidate
  ELSE IF existing >= candidate THEN existing ELSE candidate

(* a status rule that resolves equal timestamps to OPT_OUT *)
computeStatusTieOptOut(lastOptIn, lastOptOut) ==
  IF lastOptIn # NullTs /\ lastOptOut # NullTs
    THEN (IF lastOptIn > lastOptOut THEN "OPT_IN" ELSE "OPT_OUT")
  ELSE IF lastOptIn # NullTs THEN "OPT_IN"
  ELSE IF lastOptOut # NullTs THEN "OPT_OUT"
  ELSE "UNKNOWN"

computeStatus(lastOptIn, lastOptOut) ==
  IF lastOptIn # NullTs /\ lastOptOut # NullTs
    THEN (IF lastOptIn >= lastOptOut THEN "OPT_IN" ELSE "OPT_OUT")
  ELSE IF lastOptIn # NullTs THEN "OPT_IN"
  ELSE IF lastOptOut # NullTs THEN "OPT_OUT"
  ELSE "UNKNOWN"

(* an upsert whose status is the type of the event at hand *)
nextMarketingCurrentLastWins(current, eventType, eventAt) ==
  [current EXCEPT !.present = TRUE,
                  !.status = eventType,
                  !.last_opt_in_at =
                     IF eventType = "OPT_IN" THEN maxDate(@, eventAt) ELSE @,
                  !.last_opt_out_at =
                     IF eventType = "OPT_OUT" THEN maxDate(@, eventAt) ELSE @]

(* the row upsertMarketingCurrent writes, from the row its locking read  *)
(* returned (current.present = FALSE: no row)                            *)
nextMarketingCurrent(current, eventType, eventAt) ==
  LET nextLastOptIn ==
        IF eventType = "OPT_IN" THEN maxDate(current.last_opt_in_at, eventAt)
        ELSE current.last_opt_in_at
      nextLastOptOut ==
        IF eventType = "OPT_OUT" THEN maxDate(current.last_opt_out_at, eventAt)
        ELSE current.last_opt_out_at
  IN [current EXCEPT !.present = TRUE,
                     !.status = computeStatus(nextLastOptIn, nextLastOptOut),
                     !.last_opt_in_at = nextLastOptIn,
                     !.last_opt_out_at = nextLastOptOut]

(* ------------------------------------------------------------------ *)
(* A worker instance: its position in the tick, the rows it has         *)
(* claimed, the uncommitted writes of its transaction and the local     *)
(* variables of the projection in progress                              *)
(* ------------------------------------------------------------------ *)
IdleWorker ==
  [pc |-> "idle", batch |-> <<>>, i |-> 0,
   rawW |-> EmptyFn, rcptW |-> EmptyFn, tplW |-> EmptyFn, verW |-> EmptyFn,
   curW |-> EmptyFn, cevW |-> <<>>, curLock |-> {},
   rid |-> Null, upd |-> EmptyFn, tid |-> Null, csnap |-> NoCurrent]

View(committed, writes) ==
  [k \in DOMAIN committed |-> IF k \in DOMAIN writes THEN writes[k] ELSE committed[k]]

RawView(t, id) == IF id \in DOMAIN t.rawW THEN t.rawW[id] ELSE raw[id]

InTransaction(w) == wk[w].pc # "idle"

(* the process a worker connection belongs to *)
Host(w) == proc.host[w]

(* the pool the connection was taken from has not been ended *)
Connected(w) == proc.pool[Host(w)] = "open"

(* a started process: interval armed, no tick running, pool open *)
StartedProcs(host) ==
  [host |-> host,
   timer |-> [p \in Workers |-> TRUE],
   running |-> [p \in Workers |-> FALSE],
   pool |-> [p \in Workers |-> "open"],
   batchSize |-> BatchSize,
   skipped |-> 0]

(* every worker is a replica: a process of its own *)
Replicas == StartedProcs([w \in Workers |-> w])

Others(w) == instances \ {w}

BatchIds(w) == { wk[w].batch[k] : k \in 1..Len(wk[w].batch) }

(* rows of the raw table locked by an open transaction other than w's *)
LockedByOthers(w) == UNION { BatchIds(o) : o \in { x \in Others(w) : InTransaction(x) } }

(* ------------------------------------------------------------------ *)
(* RawRepo: lockNextBatch, markProcessed, markFailedAttempt             *)
(* ------------------------------------------------------------------ *)
RECURSIVE TakeFirst(_, _, _)
TakeFirst(ids, k, n) ==
  IF k > Len(raw) \/ n = 0 THEN <<>>
  ELSE IF k \in ids THEN <<k>> \o TakeFirst(ids, k + 1, n - 1)
  ELSE TakeFirst(ids, k + 1, n)

(* the batch query without SKIP LOCKED exclusion *)
CandidatesIgnoringLocks(w) == { k \in 1..Len(raw) : raw[k].processed = 0 }

(* the batch query without WHERE processed = 0 *)
CandidatesIgnoringProcessed(w) == { k \in 1..Len(raw) : k \notin LockedByOthers(w) }

(* WHERE processed = 0 ... FOR UPDATE SKIP LOCKED *)
Candidates(w) ==
  { k \in 1..Len(raw) : raw[k].processed = 0 /\ k \notin LockedByOthers(w) }

(* the batch query with AND attempts = 0: a failed row is not claimed   *)
(* again                                                                *)
lockNextBatchSkipsRetried(w, batchSize) ==
  TakeFirst({ k \in Candidates(w) : raw[k].attempts = 0 }, 1, batchSize)

(* the batch query ordered by received_at descending *)
lockNextBatchNewestFirst(w, batchSize) ==
  IF Candidates(w) = {} \/ batchSize = 0 THEN <<>>
  ELSE <<CHOOSE k \in Candidates(w) : \A j \in Candidates(w) : j <= k>>

(* the batch query over every unlocked row, terminal rows included *)
lockNextBatchAnyRow(w, batchSize) ==
  TakeFirst({ k \in 1..Len(raw) : k \notin LockedByOthers(w) }, 1, batchSize)

(* ORDER BY received_at ASC LIMIT ?: received_at grows with id *)
lockNextBatch(w, batchSize) == TakeFirst(Candidates(w), 1, batchSize)

(* a markProcessed that leaves a row with a reason pending for a retry *)
markProcessedRetriesReason(t, w, id, lastError) ==
  [t EXCEPT !.rawW = Put(@, id,
     IF lastError = NoMsg
       THEN [RawView(t, id) EXCEPT !.processed = 1,
                                   !.processed_at = NowTs,
                                   !.last_error = NoMsg,
                                   !.tried = @ + 1,
                                   !.done_by = @ \cup {w}]
       ELSE [RawView(t, id) EXCEPT !.attempts = @ + 1,
                                   !.last_error = trimError(lastError),
                                   !.tried = @ + 1])]

markProcessed(t, w, id, lastError) ==
  [t EXCEPT !.rawW = Put(@, id,
     [RawView(t, id) EXCEPT !.processed = 1,
                            !.processed_at = NowTs,
                            !.last_error = trimError(lastError),
                            !.tried = @ + 1,
                            !.done_by = @ \cup {w}])]

(* markFailedAttempt with the retry branch only *)
markFailedAttemptKeepPending(t, w, id, attempts, errorMessage, finalize) ==
  [t EXCEPT !.rawW = Put(@, id,
     [RawView(t, id) EXCEPT !.processed = 0,
                            !.attempts = attempts,
                            !.last_error = trimError(errorMessage),
                            !.tried = @ + 1, !.failed = @ + 1,
                            !.last_reason = errorMessage])]

markFailedAttempt(t, w, id, attempts, errorMessage, finalize) ==
  [t EXCEPT !.rawW = Put(@, id,
     IF finalize
       THEN [RawView(t, id) EXCEPT !.processed = 1,
                                   !.processed_at = NowTs,
                                   !.attempts = attempts,
                                   !.last_error = trimError(errorMessage),
                                   !.tried = @ + 1, !.failed = @ + 1,
                                   !.last_reason = errorMessage,
                                   !.done_by = @ \cup {w}]
       ELSE [RawView(t, id) EXCEPT !.processed = 0,
                                   !.attempts = attempts,
                                   !.last_error = trimError(errorMessage),
                                   !.tried = @ + 1, !.failed = @ + 1,
                                   !.last_reason = errorMessage])]

parsePayloadJson(payload) == payload

(* ------------------------------------------------------------------ *)
(* WorkerService                                                        *)
(* ------------------------------------------------------------------ *)
parseMessageStatus(value) ==
  IF value \in {"accepted", "sent", "delivered", "read", "failed"} THEN value ELSE Null

parseTemplateStatus(value) ==
  IF value \in {"APPROVED", "REJECTED", "PENDING", "SUBMITTED"} THEN value ELSE Null

parseConsentEvent(value) ==
  IF value \in {"OPT_IN", "OPT_OUT", "BLOCKED"} THEN value ELSE Null

(* a mapping that turns BLOCKED into OPT_OUT whatever the flag *)
normalizeConsentEventBlockedIsOptOut(event) ==
  IF event = "OPT_IN" THEN "OPT_IN"
  ELSE IF event \in {"OPT_OUT", "BLOCKED"} THEN "OPT_OUT"
  ELSE Null

normalizeConsentEvent(event) ==
  IF event = "OPT_IN" THEN "OPT_IN"
  ELSE IF event = "OPT_OUT" THEN "OPT_OUT"
  ELSE IF event = "BLOCKED" THEN (IF blockedAsOptOut THEN "OPT_OUT" ELSE Null)
  ELSE Null

Normalized(row) == normalize(parsePayloadJson(row.payload_json))

(* the event processMessageEvent builds: the re-normalized payload when its *)
(* kind is MESSAGE, else the hint columns of the row                        *)
MessageEventOf(row) ==
  LET n == Normalized(row)
  IN IF n.kind = "MESSAGE"
       THEN [n EXCEPT !.status = IF n.status # Null THEN n.status
                                 ELSE parseMessageStatus(row.event_status),
                      !.providerEventId = IF @ # Null THEN @ ELSE row.provider_event_id,
                      !.messageId = IF @ # Null THEN @ ELSE row.message_id,
                      !.whatsappMessageId = IF @ # Null THEN @ ELSE row.whatsapp_message_id]
       ELSE [kind |-> "MESSAGE",
             providerEventId |-> row.provider_event_id,
             messageId |-> row.message_id,
             whatsappMessageId |-> row.whatsapp_message_id,
             status |-> parseMessageStatus(row.event_status),
             eventAt |-> NullTs, errorCode |-> Null, errorReason |-> Null,
             errorPayload |-> FALSE]

TemplateEventOf(row) ==
  LET n == Normalized(row)
  IN IF n.kind = "TEMPLATE"
       THEN [n EXCEPT !.templateStatus = IF @ # Null THEN @
                                         ELSE parseTemplateStatus(row.event_status),
                      !.providerEventId = IF @ # Null THEN @ ELSE row.provider_event_id,
                      !.templateName = IF @ # Null THEN @ ELSE row.template_name,
                      !.templateProviderId = IF @ # Null THEN @ ELSE row.template_provider_id]
       ELSE [kind |-> "TEMPLATE",
             providerEventId |-> row.provider_event_id,
             templateName |-> row.template_name,
             templateProviderId |-> row.template_provider_id,
             templateStatus |-> parseTemplateStatus(row.event_status),
             rejectionReason |-> Null, correctCategory |-> Null, eventAt |-> NullTs]

UserEventOf(row) ==
  LET n == Normalized(row)
  IN IF n.kind = "USER"
       THEN [n EXCEPT !.consentEvent = IF @ # Null THEN @
                                       ELSE parseConsentEvent(row.event_status),
                      !.providerEventId = IF @ # Null THEN @ ELSE row.provider_event_id]
       ELSE [kind |-> "USER",
             providerEventId |-> row.provider_event_id,
             phone |-> Null,
             consentEvent |-> parseConsentEvent(row.event_status),
             eventAt |-> NullTs]

CurrentRowId(t) == t.batch[t.i]

(* the for loop of processBatch moves to the next row, or to the commit *)
NextRow(t) ==
  IF t.i < Len(t.batch)
    THEN [t EXCEPT !.pc = "row", !.i = @ + 1,
                   !.rid = Null, !.upd = EmptyFn, !.tid = Null, !.csnap = NoCurrent]
    ELSE [t EXCEPT !.pc = "commit", !.i = 0,
                   !.rid = Null, !.upd = EmptyFn, !.tid = Null, !.csnap = NoCurrent]

(* processMessageEvent up to the recipient UPDATE *)
processMessageEvent(t, w, row) ==
  LET event == MessageEventOf(row)
      table == View(rcpt, t.rcptW)
      rid == findRecipient(table, event.messageId, event.whatsappMessageId)
  IN IF event.status = Null
       THEN NextRow(markProcessed(t, w, row.id, Msg("Unrecognized payload", 20)))
     ELSE IF rid = Null
       THEN NextRow(markProcessed(t, w, row.id, Msg("Recipient not found", 19)))
     ELSE IF MessageUpdates(table[rid], event) = EmptyFn
       THEN NextRow(markProcessed(t, w, row.id, NoMsg))
     ELSE [t EXCEPT !.pc = "msgUpdate", !.rid = rid,
                    !.upd = MessageUpdates(table[rid], event)]

(* processTemplateEvent up to updateTemplateStatus *)
processTemplateEvent(t, w, row) ==
  LET integration == findActiveByAppId(row.app_id)
      event == TemplateEventOf(row)
      table == View(tpl, t.tplW)
      byId == IF event.templateProviderId # Null
                THEN findTemplateByProviderId(table, integration.id, event.templateProviderId)
                ELSE Null
      template == IF byId = Null /\ event.templateName # Null
                    THEN findTemplateByName(table, integration.company_id, event.templateName)
                    ELSE byId
  IN IF ~integration.found
       THEN NextRow(markProcessed(t, w, row.id, Msg("Integration not found for appId", 31)))
     ELSE IF event.templateStatus = Null
       THEN NextRow(markProcessed(t, w, row.id, Msg("Unrecognized payload", 20)))
     ELSE IF template = Null
       THEN NextRow(markProcessed(t, w, row.id, Msg("Template not found", 18)))
     ELSE [t EXCEPT !.pc = "tplUpdate", !.tid = template]

(* processUserEvent up to and including insertConsentEvent *)
processUserEvent(t, w, row) ==
  LET integration == findActiveByAppId(row.app_id)
      event == UserEventOf(row)
      normalizedConsent == normalizeConsentEvent(event.consentEvent)
      userId == findUserIdByPhone(event.phone)
      eventAt == IF event.eventAt # NullTs THEN event.eventAt ELSE NowTs
  IN IF ~integration.found
       THEN NextRow(markProcessed(t, w, row.id, Msg("Integration not found for appId", 31)))
     ELSE IF event.phone = Null
       THEN NextRow(markProcessed(t, w, row.id, Msg("User not found for phone", 24)))
     ELSE IF event.consentEvent = Null
       THEN NextRow(markProcessed(t, w, row.id, Msg("Unrecognized payload", 20)))
     ELSE IF normalizedConsent = Null
       THEN NextRow(markProcessed(t, w, row.id,
                                  Msg("Blocked event ignored by configuration", 38)))
     ELSE IF userId = Null
       THEN NextRow(markProcessed(t, w, row.id, Msg("User not found for phone", 24)))
     ELSE [t EXCEPT !.pc = "userLock",
                    !.cevW = Append(@, [user_id |-> userId,
                                        company_id |-> integration.company_id,
                                        event_type |-> normalizedConsent,
                                        event_at |-> eventAt,
                                        raw_id |-> row.id])]

(* finalizing one attempt later than the code does *)
shouldFinalizeLate(attempts) == attempts > MaxAttempts + 1

(* catch (error) of processSingleRow *)
shouldFinalize(attempts) == attempts > MaxAttempts

rowFailed(t, w, row, reason) ==
  LET attempts == row.attempts + 1
      finalize == shouldFinalize(attempts)
  IN markFailedAttempt(t, w, row.id, attempts, reason, finalize)

(* applyMessageEvent: the UPDATE, then markProcessed(null) *)
recipientUpdated(t, w, rowId) ==
  markProcessed(
    [t EXCEPT !.rcptW = Put(@, t.rid,
        [ApplyUpdates(View(rcpt, t.rcptW)[t.rid], t.upd) EXCEPT !.writers = @ \cup {rowId}])],
    w, rowId, NoMsg)

templateUpdated(t, w, row) ==
  LET event == TemplateEventOf(row)
  IN [t EXCEPT !.pc = "tplVersion",
               !.tplW = Put(@, t.tid,
                 [updateTemplateStatus(View(tpl, t.tplW)[t.tid], event.templateStatus,
                                       event.rejectionReason, event.correctCategory)
                    EXCEPT !.writers = @ \cup {row.id}])]

versionUpdated(t, w, row) ==
  LET event == TemplateEventOf(row)
      version == View(ver, t.verW)[t.tid]
  IN markProcessed(
       IF version.present
         THEN [t EXCEPT !.verW = Put(@, t.tid,
                 [updateLatestTemplateVersion(version, event.templateStatus,
                                              event.rejectionReason, event.eventAt)
                    EXCEPT !.writers = @ \cup {row.id}])]
         ELSE t,
       w, row.id, NoMsg)

ConsentKey(row) ==
  <<findUserIdByPhone(UserEventOf(row).phone), findActiveByAppId(row.app_id).company_id>>

currentWritten(t, w, row) ==
  LET event == UserEventOf(row)
      eventAt == IF event.eventAt # NullTs THEN event.eventAt ELSE NowTs
  IN markProcessed(
       [t EXCEPT !.curW = Put(@, ConsentKey(row),
          [nextMarketingCurrent(t.csnap, normalizeConsentEvent(event.consentEvent), eventAt)
             EXCEPT !.writers = @ \cup {row.id}])],
       w, row.id, NoMsg)

(* ------------------------------------------------------------------ *)
(* Worker actions                                                       *)
(* ------------------------------------------------------------------ *)
Static == <<reqs, instances, blockedAsOptOut, log>>

(* a tick that starts whether or not another one is running *)
LockNextBatchUnguarded(w) ==
  /\ w \in instances
  /\ wk[w].pc = "idle"
  /\ proc.timer[Host(w)]
  /\ Connected(w)
  /\ LET rows == lockNextBatch(w, proc.batchSize)
     IN /\ wk' = [wk EXCEPT ![w] =
             IF rows = <<>> THEN IdleWorker
             ELSE [IdleWorker EXCEPT !.pc = "row", !.batch = rows, !.i = 1]]
        /\ proc' = [proc EXCEPT !.running[Host(w)] = (rows # <<>>)]
  /\ UNCHANGED <<raw, rcpt, tpl, ver, cev, cur, faultsLeft, Static>>

(* safeTick -> processBatch: begin the transaction and claim a batch;   *)
(* an empty batch is committed at once                                  *)
LockNextBatch(w) ==
  /\ w \in instances
  /\ wk[w].pc = "idle"
  /\ proc.timer[Host(w)]
  /\ Connected(w)
  /\ ~proc.running[Host(w)]
  /\ LET rows == lockNextBatch(w, proc.batchSize)
     IN /\ wk' = [wk EXCEPT ![w] =
             IF rows = <<>> THEN IdleWorker
             ELSE [IdleWorker EXCEPT !.pc = "row", !.batch = rows, !.i = 1]]
        /\ proc' = [proc EXCEPT !.running[Host(w)] = (rows # <<>>)]
  /\ UNCHANGED <<raw, rcpt, tpl, ver, cev, cur, faultsLeft, Static>>

(* safeTick: `if (this.running) return;` - a timer fire during a tick *)
SafeTickSkipped(p) ==
  /\ \E w \in instances : Host(w) = p
  /\ proc.timer[p]
  /\ proc.running[p]
  /\ proc.skipped < MaxSkips
  /\ proc' = [proc EXCEPT !.skipped = @ + 1]
  /\ UNCHANGED <<raw, rcpt, tpl, ver, cev, cur, wk, faultsLeft, Static>>

(* WorkerService.onModuleDestroy: clearInterval(this.timer) *)
OnModuleDestroy(p) ==
  /\ \E w \in instances : Host(w) = p
  /\ proc.timer[p]
  /\ proc' = [proc EXCEPT !.timer[p] = FALSE]
  /\ UNCHANGED <<raw, rcpt, tpl, ver, cev, cur, wk, faultsLeft, Static>>

(* MysqlService.onModuleDestroy: await this.pool.end(), called on the    *)
(* same shutdown as the worker's hook; nothing waits for a tick          *)
PoolEnd(p) ==
  /\ ~proc.timer[p]
  /\ proc.pool[p] = "open"
  /\ proc' = [proc EXCEPT !.pool[p] = "closed"]
  /\ UNCHANGED <<raw, rcpt, tpl, ver, cev, cur, wk, faultsLeft, Static>>

(* the next statement of a tick whose pool was ended throws, and so does *)
(* the rollback of processBatch's catch; the server discards the         *)
(* transaction with the connection, safeTick logs and clears the guard   *)
ConnectionClosed(w) ==
  /\ InTransaction(w)
  /\ ~Connected(w)
  /\ wk' = [wk EXCEPT ![w] = IdleWorker]
  /\ proc' = [proc EXCEPT !.running[Host(w)] = FALSE]
  /\ UNCHANGED <<raw, rcpt, tpl, ver, cev, cur, faultsLeft, Static>>

(* processSingleRow: dispatch on the stored kind, up to the first write  *)
(* that takes a row lock                                                 *)
ProcessSingleRow(w) ==
  /\ Connected(w)
  /\ wk[w].pc = "row"
  /\ LET t == wk[w]
         row == raw[CurrentRowId(t)]
     IN wk' = [wk EXCEPT ![w] =
          CASE row.event_kind = "MESSAGE" -> processMessageEvent(t, w, row)
            [] row.event_kind = "TEMPLATE" -> processTemplateEvent(t, w, row)
            [] row.event_kind = "USER" -> processUserEvent(t, w, row)
            [] OTHER -> NextRow(markProcessed(t, w, row.id, Msg("Unrecognized payload", 20)))]
  /\ UNCHANGED <<raw, rcpt, tpl, ver, cev, cur, faultsLeft, Static, proc>>

(* RecipientRepo.applyMessageEvent: UPDATE wpp_campaign_recipient; waits *)
(* while another transaction holds the row                               *)
ApplyMessageEvent(w) ==
  /\ Connected(w)
  /\ wk[w].pc = "msgUpdate"
  /\ \A o \in Others(w) : wk[w].rid \notin DOMAIN wk[o].rcptW
  /\ wk' = [wk EXCEPT ![w] = NextRow(recipientUpdated(wk[w], w, CurrentRowId(wk[w])))]
  /\ UNCHANGED <<raw, rcpt, tpl, ver, cev, cur, faultsLeft, Static, proc>>

(* TemplateRepo.updateTemplateStatus *)
UpdateTemplateStatus(w) ==
  /\ Connected(w)
  /\ wk[w].pc = "tplUpdate"
  /\ \A o \in Others(w) : wk[w].tid \notin DOMAIN wk[o].tplW
  /\ wk' = [wk EXCEPT ![w] = templateUpdated(wk[w], w, raw[CurrentRowId(wk[w])])]
  /\ UNCHANGED <<raw, rcpt, tpl, ver, cev, cur, faultsLeft, Static, proc>>

(* TemplateRepo.updateLatestTemplateVersion (SELECT ... FOR UPDATE, then *)
(* UPDATE), then markProcessed(null)                                     *)
UpdateLatestTemplateVersion(w) ==
  /\ Connected(w)
  /\ wk[w].pc = "tplVersion"
  /\ \A o \in Others(w) : wk[w].tid \notin DOMAIN wk[o].verW
  /\ wk' = [wk EXCEPT ![w] = NextRow(versionUpdated(wk[w], w, raw[CurrentRowId(wk[w])]))]
  /\ UNCHANGED <<raw, rcpt, tpl, ver, cev, cur, faultsLeft, Static, proc>>

(* ConsentRepo.upsertMarketingCurrent: the locking read.  An existing row *)
(* is locked; when there is none nothing is locked.                       *)
LockMarketingCurrent(w) ==
  /\ Connected(w)
  /\ wk[w].pc = "userLock"
  /\ LET t == wk[w]
         key == ConsentKey(raw[CurrentRowId(t)])
         current == View(cur, t.curW)[key]
     IN /\ \A o \in Others(w) : key \notin DOMAIN wk[o].curW /\ key \notin wk[o].curLock
        /\ wk' = [wk EXCEPT ![w] =
             [t EXCEPT !.pc = "userWrite", !.csnap = current,
                       !.curLock = IF current.present THEN @ \cup {key} ELSE @]]
  /\ UNCHANGED <<raw, rcpt, tpl, ver, cev, cur, faultsLeft, Static, proc>>

(* ConsentRepo.upsertMarketingCurrent: INSERT or UPDATE, then            *)
(* markProcessed(null).  The INSERT waits for an uncommitted row of the  *)
(* same key and fails on a committed one (duplicate primary key): the    *)
(* error is caught by processSingleRow.                                  *)
WriteMarketingCurrent(w) ==
  /\ Connected(w)
  /\ wk[w].pc = "userWrite"
  /\ LET t == wk[w]
         row == raw[CurrentRowId(t)]
         key == ConsentKey(row)
     IN /\ \A o \in Others(w) : key \notin DOMAIN wk[o].curW /\ key \notin wk[o].curLock
        /\ wk' = [wk EXCEPT ![w] =
             IF ~t.csnap.present /\ View(cur, t.curW)[key].present
               THEN NextRow(rowFailed(t, w, row, Msg("Duplicate entry for key PRIMARY", 31)))
               ELSE NextRow(currentWritten(t, w, row))]
  /\ UNCHANGED <<raw, rcpt, tpl, ver, cev, cur, faultsLeft, Static, proc>>

ProjectionPcs == {"row", "msgUpdate", "tplUpdate", "tplVersion", "userLock", "userWrite"}

ErrorReasons == { Msg("Lock wait timeout exceeded", 26), Msg("Data too long", 300) }

(* a failed row that ends the loop over the batch: the rows after it    *)
(* are left for a later tick                                            *)
StatementThrowsEndsBatch(w, reason) ==
  /\ Connected(w)
  /\ wk[w].pc \in ProjectionPcs
  /\ faultsLeft > 0
  /\ faultsLeft' = faultsLeft - 1
  /\ wk' = [wk EXCEPT ![w] =
       [rowFailed(wk[w], w, raw[CurrentRowId(wk[w])], reason)
          EXCEPT !.pc = "commit", !.i = 0,
                 !.rid = Null, !.upd = EmptyFn, !.tid = Null, !.csnap = NoCurrent]]
  /\ UNCHANGED <<raw, rcpt, tpl, ver, cev, cur, Static, proc>>

(* a statement of the projection throws: the catch of processSingleRow   *)
(* records the failed attempt on the same transaction and the batch goes *)
(* on                                                                    *)
StatementThrows(w, reason) ==
  /\ Connected(w)
  /\ wk[w].pc \in ProjectionPcs
  /\ faultsLeft > 0
  /\ faultsLeft' = faultsLeft - 1
  /\ wk' = [wk EXCEPT ![w] = NextRow(rowFailed(wk[w], w, raw[CurrentRowId(wk[w])], reason))]
  /\ UNCHANGED <<raw, rcpt, tpl, ver, cev, cur, Static, proc>>

(* a rollback that leaves the writes of the tick in place *)
RollbackKeepsWrites(w) ==
  /\ Connected(w)
  /\ wk[w].pc \in ProjectionPcs \cup {"commit"}
  /\ faultsLeft > 0
  /\ faultsLeft' = faultsLeft - 1
  /\ raw' = [k \in 1..Len(raw) |->
               IF k \in DOMAIN wk[w].rawW THEN wk[w].rawW[k] ELSE raw[k]]
  /\ rcpt' = View(rcpt, wk[w].rcptW)
  /\ wk' = [wk EXCEPT ![w] = IdleWorker]
  /\ proc' = [proc EXCEPT !.running[Host(w)] = FALSE]
  /\ UNCHANGED <<tpl, ver, cev, cur, Static>>

(* markFailedAttempt or commit throws: processBatch rolls back and the   *)
(* error is logged by safeTick                                           *)
Rollback(w) ==
  /\ Connected(w)
  /\ wk[w].pc \in ProjectionPcs \cup {"commit"}
  /\ faultsLeft > 0
  /\ faultsLeft' = faultsLeft - 1
  /\ wk' = [wk EXCEPT ![w] = IdleWorker]
  /\ proc' = [proc EXCEPT !.running[Host(w)] = FALSE]
  /\ UNCHANGED <<raw, rcpt, tpl, ver, cev, cur, Static>>

(* connection.commit(): the writes of the transaction become the         *)
(* committed rows and its locks are released                             *)
Commit(w) ==
  /\ Connected(w)
  /\ wk[w].pc = "commit"
  /\ LET t == wk[w]
     IN /\ raw' = [k \in 1..Len(raw) |-> IF k \in DOMAIN t.rawW THEN t.rawW[k] ELSE raw[k]]
        /\ rcpt' = View(rcpt, t.rcptW)
        /\ tpl' = View(tpl, t.tplW)
        /\ ver' = View(ver, t.verW)
        /\ cur' = View(cur, t.curW)
        /\ cev' = cev \o t.cevW
  /\ wk' = [wk EXCEPT ![w] = IdleWorker]
  /\ proc' = [proc EXCEPT !.running[Host(w)] = FALSE]
  /\ UNCHANGED <<faultsLeft, Static>>

(* ------------------------------------------------------------------ *)
(* Specifications                                                       *)
(* ------------------------------------------------------------------ *)
RECURSIVE IngestAll(_, _)
IngestAll(table, feed) ==
  IF feed = <<>> THEN table
  ELSE IngestAll(insertRawEvent(table, IngestInput(feed[1][1], feed[1][2])).table, Tail(feed))

TablesInit(statuses) ==
  /\ rcpt \in [RcptIds -> { NewRecipient(s) : s \in statuses }]
  /\ tpl = [t \in TplIds |-> NewTemplate]
  /\ ver = [t \in TplIds |-> NewVersion]
  /\ cur = [k \in CurKeys |-> NoCurrent]
  /\ cev = <<>>
  /\ wk = [w \in Workers |-> IdleWorker]
  /\ blockedAsOptOut = TRUE
  /\ proc = Replicas
  /\ log = <<>>

NextIngest ==
  \/ \E a \in AppIds, s \in Secrets, b \in IngestBodies : ReceiveGupshupWebhook(a, s, b)
  \/ \E i \in 1..Len(reqs) : Ingest(i)
  \/ \E i \in 1..Len(reqs) : IngestThrows(i)
  \/ \E i \in 1..Len(reqs) : Respond(i)

NextWorker ==
  \/ \E w \in Workers : LockNextBatch(w)
  \/ \E w \in Workers : ProcessSingleRow(w)
  \/ \E w \in Workers : ApplyMessageEvent(w)
  \/ \E w \in Workers : UpdateTemplateStatus(w)
  \/ \E w \in Workers : UpdateLatestTemplateVersion(w)
  \/ \E w \in Workers : LockMarketingCurrent(w)
  \/ \E w \in Workers : WriteMarketingCurrent(w)
  \/ \E w \in Workers, reason \in ErrorReasons : StatementThrows(w, reason)
  \/ \E w \in Workers : Rollback(w)
  \/ \E w \in Workers : Commit(w)

(* the ingest endpoint alone, the worker idle *)
InitIngest ==
  /\ raw = <<>>
  /\ reqs = <<>>
  /\ TablesInit({"SUBMITTED"})
  /\ instances = {}
  /\ faultsLeft = MaxFaults

SpecIngest == InitIngest /\ [][NextIngest]_vars

(* authenticated requests of one app whose bodies mix the signals of the *)
(* three event kinds                                                     *)
NormBodies ==
  {"x-tpl-msg", "x-tpl-user", "x-name-msg", "x-name-user", "x-msg-user", "x-hint-only",
   "x-paused-hint", "t-approved", "t-paused", "m-sent-1", "u-optin", "u-stranger",
   "{}", "hello"}

NextNorm ==
  \/ \E b \in NormBodies : ReceiveGupshupWebhook("A", GupshupWebhookSecret, b)
  \/ \E i \in 1..Len(reqs) : Ingest(i)
  \/ \E i \in 1..Len(reqs) : Respond(i)

SpecNorm == InitIngest /\ [][NextNorm]_vars

(* two worker instances draining a raw store that earlier requests filled *)
WorkerBodies == {"m-delivered-1", "m-sent-1", "m-read-1", "t-approved", "u-optin", "u-optout"}

InitialStatus == "SUBMITTED"

Init ==
  /\ \E b1 \in WorkerBodies : \E b2 \in WorkerBodies :
       raw = IngestAll(<<>>, <<<<"A", b1>>, <<"A", b2>>>>)
  /\ reqs = <<>>
  /\ TablesInit({InitialStatus})
  /\ instances = Workers
  /\ faultsLeft = MaxFaults

Spec == Init /\ [][NextWorker]_vars

(* one row of each kind, and enough failing statements for the row to    *)
(* use up its attempts                                                   *)
RetryFaults == 12

RetryBodies == {"m-delivered-1", "t-approved", "u-optin"}

InitRetry ==
  /\ \E b \in RetryBodies : raw = IngestAll(<<>>, << <<"A", b>> >>)
  /\ reqs = <<>>
  /\ TablesInit({"SUBMITTED"})
  /\ instances = Workers
  /\ faultsLeft = RetryFaults

SpecRetry == InitRetry /\ [][NextWorker]_vars

(* a single worker instance projecting message events one after another, *)
(* from every status a recipient can have                                *)
SeqBodies ==
  {"m-accepted-1", "m-sent-1", "m-delivered-1", "m-read-1", "m-failed-1", "m-failed-bare"}

NextSeq ==
  \/ \E w \in instances : LockNextBatch(w)
  \/ \E w \in instances : ProcessSingleRow(w)
  \/ \E w \in instances : ApplyMessageEvent(w)
  \/ \E w \in instances, reason \in ErrorReasons : StatementThrows(w, reason)
  \/ \E w \in instances : Rollback(w)
  \/ \E w \in instances : Commit(w)

InitSeq ==
  /\ \E b1 \in SeqBodies : \E b2 \in SeqBodies :
       raw = IngestAll(<<>>, <<<<"A", b1>>, <<"A", b2>>>>)
  /\ reqs = <<>>
  /\ TablesInit(RecipientStatuses)
  /\ instances = {"w1"}
  /\ faultsLeft = MaxFaults

SpecSeq == InitSeq /\ [][NextSeq]_vars

(* one worker instance; the older row is a template event that may fail *)
(* until it is finalized, the newer row waits behind it                 *)
InitLive ==
  /\ \E b1 \in {"t-approved", "t-rejected"} :
       raw = IngestAll(<<>>, <<<<"A", b1>>, <<"A", "hello">>>>)
  /\ reqs = <<>>
  /\ TablesInit({"SUBMITTED"})
  /\ instances = {"w1"}
  /\ faultsLeft = RetryFaults

(* the steps of a tick over template and unrecognized rows *)
NextLive ==
  \/ \E w \in Workers : LockNextBatch(w)
  \/ \E w \in Workers : ProcessSingleRow(w)
  \/ \E w \in Workers : UpdateTemplateStatus(w)
  \/ \E w \in Workers : UpdateLatestTemplateVersion(w)
  \/ \E w \in Workers, reason \in ErrorReasons : StatementThrows(w, reason)
  \/ \E w \in Workers : Rollback(w)
  \/ \E w \in Workers : Commit(w)

(* setInterval keeps calling safeTick and an awaited statement settles: *)
(* a tick that can take a step takes one                                *)
SpecLive == InitLive /\ [][NextLive]_vars /\ WF_vars(NextLive)

(* two worker instances whose ticks claim two rows at a time *)
InitBatch ==
  /\ \E b1 \in {"m-delivered-1", "t-approved", "u-optin", "hello"} :
       \E b2 \in {"m-delivered-1", "t-approved", "u-optin", "hello"} :
         raw = IngestAll(<<>>, <<<<"A", b1>>, <<"A", b2>>>>)
  /\ reqs = <<>>
  /\ rcpt = [r \in RcptIds |-> NewRecipient(InitialStatus)]
  /\ tpl = [t \in TplIds |-> NewTemplate]
  /\ ver = [t \in TplIds |-> NewVersion]
  /\ cur = [k \in CurKeys |-> NoCurrent]
  /\ cev = <<>>
  /\ wk = [w \in Workers |-> IdleWorker]
  /\ blockedAsOptOut = TRUE
  /\ proc = [Replicas EXCEPT !.batchSize = BatchSize + 1]
  /\ log = <<>>
  /\ instances = Workers
  /\ faultsLeft = MaxFaults

SpecBatch == InitBatch /\ [][NextWorker]_vars

(* two worker instances projecting template events of one template,     *)
(* which starts as a draft or as rejected with its reason and category  *)
NextTpl ==
  \/ \E w \in instances : LockNextBatch(w)
  \/ \E w \in instances : ProcessSingleRow(w)
  \/ \E w \in instances : UpdateTemplateStatus(w)
  \/ \E w \in instances : UpdateLatestTemplateVersion(w)
  \/ \E w \in instances, reason \in ErrorReasons : StatementThrows(w, reason)
  \/ \E w \in instances : Rollback(w)
  \/ \E w \in instances : Commit(w)

TplBodies == {"t-rejected", "t-approved", "t-review", "t-pending", "t-other-named"}

InitTpl ==
  /\ \E b1 \in TplBodies :
       \E b2 \in TplBodies :
         raw = IngestAll(<<>>, <<<<"A", b1>>, <<"A", b2>>>>)
  /\ reqs = <<>>
  /\ rcpt = [r \in RcptIds |-> NewRecipient(InitialStatus)]
  /\ tpl \in [TplIds -> {NewTemplate,
                         [NewTemplate EXCEPT !.status = "REJECTED",
                                             !.rejection_reason = "old-reason",
                                             !.correct_category = "MARKETING"]}]
  /\ ver = [t \in TplIds |-> NewVersion]
  /\ cur = [k \in CurKeys |-> NoCurrent]
  /\ cev = <<>>
  /\ wk = [w \in Workers |-> IdleWorker]
  /\ blockedAsOptOut = TRUE
  /\ proc = Replicas
  /\ log = <<>>
  /\ instances = Workers
  /\ faultsLeft = MaxFaults

SpecTpl == InitTpl /\ [][NextTpl]_vars

(* one process from start to shutdown: ticks, skipped timer fires, the   *)
(* two shutdown hooks                                                    *)
TickBodies == {"m-delivered-1", "u-optin", "hello"}

NextTick ==
  \/ \E w \in instances : LockNextBatch(w)
  \/ \E p \in Workers : SafeTickSkipped(p)
  \/ \E w \in instances : ProcessSingleRow(w)
  \/ \E w \in instances : ApplyMessageEvent(w)
  \/ \E w \in instances : LockMarketingCurrent(w)
  \/ \E w \in instances : WriteMarketingCurrent(w)
  \/ \E w \in instances, reason \in ErrorReasons : StatementThrows(w, reason)
  \/ \E w \in instances : Rollback(w)
  \/ \E w \in instances : Commit(w)
  \/ \E p \in Workers : OnModuleDestroy(p)
  \/ \E p \in Workers : PoolEnd(p)
  \/ \E w \in instances : ConnectionClosed(w)

InitTick ==
  /\ \E a \in TickBodies : \E b \in TickBodies :
       raw = IngestAll(<<>>, <<<<"A", a>>, <<"A", b>>>>)
  /\ reqs = <<>>
  /\ rcpt = [r \in RcptIds |-> NewRecipient(InitialStatus)]
  /\ tpl = [t \in TplIds |-> NewTemplate]
  /\ ver = [t \in TplIds |-> NewVersion]
  /\ cur = [k \in CurKeys |-> NoCurrent]
  /\ cev = <<>>
  /\ wk = [w \in Workers |-> IdleWorker]
  /\ blockedAsOptOut = TRUE
  /\ instances = Workers
  /\ faultsLeft = MaxFaults
  /\ proc = StartedProcs([w \in Workers |-> "w1"])
  /\ log = <<>>

SpecTick == InitTick /\ [][NextTick]_vars

(* rows the projection cannot apply, next to rows it can: unknown kind,  *)
(* unknown status, unknown recipient, template or user, missing phone,  *)
(* app without integration, BLOCKED under both settings of the flag     *)
SoftRows ==
  { <<"A", "hello">>, <<"A", "m-queued">>, <<"A", "m-nobody">>,
    <<"A", "t-other">>, <<"A", "t-paused">>, <<"B", "t-approved">>,
    <<"A", "u-nophone">>, <<"A", "u-stranger">>, <<"B", "u-optin">>,
    <<"A", "u-blocked">>, <<"A", "m-delivered-1">> }

NextSoft ==
  \/ \E w \in instances : LockNextBatch(w)
  \/ \E w \in instances : ProcessSingleRow(w)
  \/ \E w \in instances : ApplyMessageEvent(w)
  \/ \E w \in instances : LockMarketingCurrent(w)
  \/ \E w \in instances : WriteMarketingCurrent(w)
  \/ \E w \in instances, reason \in ErrorReasons : StatementThrows(w, reason)
  \/ \E w \in instances : Rollback(w)
  \/ \E w \in instances : Commit(w)

InitSoft ==
  /\ \E a \in SoftRows : \E b \in SoftRows : raw = IngestAll(<<>>, <<a, b>>)
  /\ reqs = <<>>
  /\ rcpt = [r \in RcptIds |-> NewRecipient(InitialStatus)]
  /\ tpl = [t \in TplIds |-> NewTemplate]
  /\ ver = [t \in TplIds |-> NewVersion]
  /\ cur = [k \in CurKeys |-> NoCurrent]
  /\ cev = <<>>
  /\ wk = [w \in Workers |-> IdleWorker]
  /\ blockedAsOptOut \in BOOLEAN
  /\ proc = Replicas
  /\ log = <<>>
  /\ instances = Workers
  /\ faultsLeft = SoftFaults

SpecSoft == InitSoft /\ [][NextSoft]_vars

(* the logger alone *)
NextLog ==
  \/ \E meta \in { v \in LogValues : v.t = "obj" } : LogLine(meta)
  \/ \E payload \in LogValues, chars \in {8, MaxStringLength} : LogPreview(payload, chars)

InitLog ==
  /\ raw = <<>>
  /\ reqs = <<>>
  /\ TablesInit({"SUBMITTED"})
  /\ instances = {}
  /\ faultsLeft = 0

SpecLog == InitLog /\ [][NextLog]_vars

(* two worker instances projecting consent events of one user *)
ConsentBodies == {"u-optin", "u-optin-2", "u-optout", "u-blocked"}

NextConsent ==
  \/ \E w \in instances : LockNextBatch(w)
  \/ \E w \in instances : ProcessSingleRow(w)
  \/ \E w \in instances : LockMarketingCurrent(w)
  \/ \E w \in instances : WriteMarketingCurrent(w)
  \/ \E w \in instances, reason \in ErrorReasons : StatementThrows(w, reason)
  \/ \E w \in instances : Rollback(w)
  \/ \E w \in instances : Commit(w)

InitConsent ==
  /\ \E b1 \in ConsentBodies : \E b2 \in ConsentBodies :
       raw = IngestAll(<<>>, <<<<"A", b1>>, <<"A", b2>>>>)
  /\ reqs = <<>>
  /\ rcpt = [r \in RcptIds |-> NewRecipient(InitialStatus)]
  /\ tpl = [t \in TplIds |-> NewTemplate]
  /\ ver = [t \in TplIds |-> NewVersion]
  /\ cur = [k \in CurKeys |-> NoCurrent]
  /\ cev = <<>>
  /\ wk = [w \in Workers |-> IdleWorker]
  /\ blockedAsOptOut = TRUE
  /\ proc = Replicas
  /\ log = <<>>
  /\ instances = Workers
  /\ faultsLeft = MaxFaults

SpecConsent == InitConsent /\ [][NextConsent]_vars

(* ================================================================== *)
(* Claims                                                               *)
(* ================================================================== *)
RowsWithKey(key) == { k \in 1..Len(raw) : raw[k].dedupe_key = key }

Authenticated(i) == validateSecret(reqs[i].secret)

(* pairs of completed, authenticated calls with the same app_id and body *)
SamePairs ==
  { p \in (1..Len(reqs)) \X (1..Len(reqs)) :
      /\ p[1] < p[2]
      /\ reqs[p[1]].pc = "done" /\ reqs[p[2]].pc = "done"
      /\ Authenticated(p[1]) /\ Authenticated(p[2])
      /\ reqs[p[1]].appId = reqs[p[2]].appId
      /\ reqs[p[1]].rawBody = reqs[p[2]].rawBody }

KeyOfReq(i) == IngestInput(reqs[i].appId, reqs[i].rawBody).dedupeKey

(* C1 as stated: two authenticated calls with the same app_id and the     *)
(* same body leave exactly one RawEvent row and are both answered 200.    *)
C1_AsStated ==
  \A p \in SamePairs :
    /\ Cardinality(RowsWithKey(KeyOfReq(p[1]))) = 1
    /\ reqs[p[1]].response = 200
    /\ reqs[p[2]].response = 200

(* C1 amended: of two authenticated calls with the same app_id and body,  *)
(* each call whose insert did not throw is answered 200, a call whose     *)
(* insert threw is answered 500 and adds no row; there is never more than *)
(* one RawEvent row for them, and exactly one as soon as one insert of    *)
(* the two did not throw.                                                 *)
C1_OneRowPerIdenticalCall ==
  \A p \in SamePairs :
    LET n == Cardinality(RowsWithKey(KeyOfReq(p[1])))
    IN /\ n <= 1
       /\ \A x \in {p[1], p[2]} :
            reqs[x].response = IF reqs[x].threw THEN 500 ELSE 200
       /\ (~reqs[p[1]].threw \/ ~reqs[p[2]].threw) => n = 1
       /\ \A x \in {p[1], p[2]} : ~(reqs[x].threw /\ reqs[x].inserted)
       /\ ~(reqs[p[1]].inserted /\ reqs[p[2]].inserted)

C1_Witness ==
  \E p \in SamePairs :
    /\ reqs[p[1]].response = 200 /\ reqs[p[2]].response = 200
    /\ reqs[p[1]].inserted /\ ~reqs[p[2]].inserted
    /\ Cardinality(RowsWithKey(KeyOfReq(p[1]))) = 1

ConsentEventsOf(k) == { j \in 1..Len(cev) : cev[j].raw_id = k }

(* C3: each USER RawEvent has caused at most one committed              *)
(* MarketingConsentEvent row, also after ticks in which a projection    *)
(* step threw.                                                          *)
C3_AtMostOneConsentEvent ==
  \A k \in 1..Len(raw) :
    raw[k].event_kind = "USER" => Cardinality(ConsentEventsOf(k)) <= 1

(* ---------------------------- C4 ---------------------------------- *)
(* the committed projection writes that came from raw row k *)
CommittedWritesOf(k) ==
  { <<"recipient", r>> : r \in { x \in RcptIds : k \in rcpt[x].writers } }
    \cup { <<"template", t>> : t \in { x \in TplIds : k \in tpl[x].writers } }
    \cup { <<"version", t>> : t \in { x \in TplIds : k \in ver[x].writers } }
    \cup { <<"current", c>> : c \in { x \in CurKeys : k \in cur[x].writers } }
    \cup { <<"consent_event", j>> : j \in ConsentEventsOf(k) }

(* C4: in every committed state a row that is pending (processed = 0)   *)
(* has none of its projection writes committed: the writes of a row are *)
(* committed only together with the row's terminal mark.                *)
C4_AllOrNothing ==
  \A k \in 1..Len(raw) : raw[k].processed = 0 => CommittedWritesOf(k) = {}

(* ---------------------------- C5 ---------------------------------- *)
(* C5: a row whose committed processed is 1 never later has a committed *)
(* processed = 0.                                                       *)
C5_ProcessedIsFinal ==
  [][\A k \in 1..Len(raw) : raw[k].processed = 1 => raw'[k].processed = 1]_vars

C5_Witness ==
  \E k \in 1..Len(raw) : \E j \in 1..Len(raw) :
    /\ raw[k].processed = 1
    /\ raw[j].processed = 0 /\ raw[j].attempts > 0
    /\ \E w \in Workers : wk[w].pc = "commit" /\ j \in BatchIds(w) /\ wk[w].rawW[j].processed = 1

(* ---------------------------- C6 ---------------------------------- *)
(* C6: in every committed state of the raw store, a row with            *)
(* attempts > MAX_ATTEMPTS (10) has processed = 1.                      *)
C6_ExhaustedIsTerminal ==
  \A k \in 1..Len(raw) : raw[k].attempts > MaxAttempts => raw[k].processed = 1

C6_Witness ==
  \E k \in 1..Len(raw) : raw[k].attempts > MaxAttempts /\ raw[k].processed_at = NowTs

(* ---------------------------- C7 ---------------------------------- *)
(* rows every attempt of which has thrown so far *)
AlwaysThrew == { k \in 1..Len(raw) : raw[k].failed > 0 /\ raw[k].tried = raw[k].failed }

RetrySchedule(k) ==
  /\ raw[k].attempts = raw[k].failed
  /\ raw[k].failed <= MaxAttempts + 1
  /\ raw[k].failed <= MaxAttempts =>
       /\ raw[k].processed = 0
       /\ \A w \in instances : k \notin LockedByOthers(w) => k \in Candidates(w)
  /\ raw[k].failed = MaxAttempts + 1 =>
       /\ raw[k].processed = 1
       /\ raw[k].attempts = MaxAttempts + 1

(* C7 as stated: a row whose projection throws on every attempt is      *)
(* pending with attempts = k after its k-th failed attempt, k = 1..10,  *)
(* is claimed again, and at the 11th failed attempt is terminal with    *)
(* attempts = 11 and last_error equal to the reason of that failure.    *)
C7_AsStated ==
  \A k \in AlwaysThrew :
    /\ RetrySchedule(k)
    /\ raw[k].failed = MaxAttempts + 1 => raw[k].last_error = raw[k].last_reason

(* C7 amended: the same schedule, last_error holding the reason of the  *)
(* last failure as trimError stores it: whole when it has at most 255   *)
(* characters, else its first 252 characters followed by "...".         *)
C7_RetryThenFinalize ==
  \A k \in AlwaysThrew :
    /\ RetrySchedule(k)
    /\ raw[k].last_error = trimError(raw[k].last_reason)
    /\ raw[k].last_reason.len <= MaxErrorLen => raw[k].last_error = raw[k].last_reason
    /\ raw[k].last_reason.len > MaxErrorLen =>
         raw[k].last_error.cut /\ raw[k].last_error.len = MaxErrorLen

C7_Witness ==
  \E k \in AlwaysThrew :
    /\ raw[k].failed = MaxAttempts + 1
    /\ raw[k].processed = 1
    /\ raw[k].last_reason.len > MaxErrorLen

(* ---------------------------- C8 ---------------------------------- *)
(* C8: with applyMessageEvent calls applied one after another, every    *)
(* change of a recipient's status raises its rank; a failed event moves *)
(* every status other than READ and FAILED to FAILED, the highest rank. *)
C8_RankNeverDecreases ==
  [][\A r \in RcptIds :
       /\ STATUS_RANK(rcpt'[r].status) >= STATUS_RANK(rcpt[r].status)
       /\ rcpt'[r].status # rcpt[r].status =>
            STATUS_RANK(rcpt'[r].status) > STATUS_RANK(rcpt[r].status)
       /\ \A w \in instances :
            (ApplyMessageEvent(w) /\ wk[w].rid = r) =>
              LET before == View(rcpt, wk[w].rcptW)[r].status
                  after == wk'[w].rcptW[r].status
                  event == MessageEventOf(raw[CurrentRowId(wk[w])])
              IN /\ STATUS_RANK(after) >= STATUS_RANK(before)
                 /\ (event.status = "failed" /\ before \notin {"READ", "FAILED"}) =>
                      after = "FAILED"
                 /\ (event.status = "failed" /\ before \in {"READ", "FAILED"}) =>
                      after = before]_vars

C8_Witness ==
  \E r \in RcptIds :
    /\ Cardinality(rcpt[r].writers) = 2
    /\ rcpt[r].status = "FAILED"
    /\ rcpt[r].reached_at # NullTs

(* ---------------------------- C9 ---------------------------------- *)
Data(row) == [c \in (DOMAIN row) \ {"writers"} |-> row[c]]

Orders(S) ==
  { o \in [1..Cardinality(S) -> S] : \A i, j \in 1..Cardinality(S) : o[i] = o[j] => i = j }

RECURSIVE SerialApply(_, _, _)
SerialApply(recipient, order, i) ==
  IF i > Len(order) THEN recipient
  ELSE SerialApply(applyMessageEvent(recipient, MessageEventOf(raw[order[i]])), order, i + 1)

(* the message rows whose projection on recipient r ran to its end *)
ProjectedOn(r) ==
  { k \in 1..Len(raw) :
      /\ raw[k].event_kind = "MESSAGE"
      /\ raw[k].processed = 1
      /\ raw[k].last_error = NoMsg
      /\ findRecipient(rcpt, MessageEventOf(raw[k]).messageId,
                       MessageEventOf(raw[k]).whatsappMessageId) = r }

(* C9: the committed recipient row equals the result of applying the    *)
(* message events projected on it one after the other in some order.    *)
C9_SerialOutcome ==
  \A r \in RcptIds :
    \E order \in Orders(ProjectedOn(r)) :
      Data(rcpt[r]) = Data(SerialApply(NewRecipient(InitialStatus), order, 1))

(* ---------------------------- C10 --------------------------------- *)
RecipientFirstOccurrence == {"accepted_at", "sent_at", "reached_at", "failed_at"}

VersionFirstOccurrence == {"submitted_at", "approved_at", "rejected_at"}

(* C10: a first-occurrence timestamp of a recipient or of a template    *)
(* version, once non-null, keeps its value in every later committed     *)
(* state.                                                               *)
C10_FirstOccurrenceOnce ==
  [][/\ \A r \in RcptIds : \A c \in RecipientFirstOccurrence :
          rcpt[r][c] # NullTs => rcpt'[r][c] = rcpt[r][c]
     /\ \A t \in TplIds : \A c \in VersionFirstOccurrence :
          ver[t][c] # NullTs => ver'[t][c] = ver[t][c]]_vars

(* ---------------------------- C11 --------------------------------- *)
(* status as the rule of the consent policy gives it from the two      *)
(* timestamps of a row                                                 *)
StatusByRule(row) ==
  IF row.last_opt_in_at # NullTs
       /\ (row.last_opt_out_at = NullTs \/ row.last_opt_in_at >= row.last_opt_out_at)
    THEN "OPT_IN"
  ELSE IF row.last_opt_out_at # NullTs
       /\ (row.last_opt_in_at = NullTs \/ row.last_opt_out_at > row.last_opt_in_at)
    THEN "OPT_OUT"
  ELSE "UNKNOWN"

(* C11: every MarketingCurrent row, committed or written by an open     *)
(* transaction, has the status its own (last_opt_in_at,                 *)
(* last_opt_out_at) give: OPT_IN when the opt-in is the later or equal  *)
(* one, OPT_OUT when the opt-out is strictly later, UNKNOWN when both   *)
(* are null.                                                            *)
C11_StatusIsDerived ==
  /\ \A k \in CurKeys : cur[k].present => cur[k].status = StatusByRule(cur[k])
  /\ \A w \in Workers : \A k \in DOMAIN wk[w].curW :
        /\ wk[w].curW[k].present
        /\ wk[w].curW[k].status = StatusByRule(wk[w].curW[k])

C11_Witness ==
  \E k \in CurKeys :
    /\ cur[k].present
    /\ cur[k].last_opt_in_at # NullTs
    /\ cur[k].last_opt_in_at = cur[k].last_opt_out_at
    /\ cur[k].status = "OPT_IN"
    /\ Cardinality(cur[k].writers) = 2

(* ---------------------------- C12 --------------------------------- *)
(* the material the key rule names for an input *)
KeyMaterial(appId, normalized, rawBody) ==
  LET messageId == pickMessageId(normalized)
      eventStatus == pickEventStatus(normalized)
      isoTimestamp == IF normalized.eventAt = NullTs THEN ""
                      ELSE toISOString(normalized.eventAt)
  IN IF normalized.providerEventId # Null
       THEN <<appId, "|", normalized.kind, "|", normalized.providerEventId>>
     ELSE IF messageId # Null \/ eventStatus # Null \/ normalized.eventAt # NullTs
       THEN <<appId, "|", normalized.kind, "|",
              IF messageId = Null THEN "" ELSE messageId, "|",
              IF eventStatus = Null THEN "" ELSE eventStatus, "|", isoTimestamp>>
     ELSE <<rawBody>>

RuleKey(i) ==
  sha256(KeyMaterial(reqs[i].appId,
                     normalize(parseRawBody(reqs[i].rawBody).normalizedPayload),
                     reqs[i].rawBody))

Keyed == { i \in 1..Len(reqs) : reqs[i].pc \in {"ingested", "done"} /\ reqs[i].dedupeKey # <<>> }

(* C12: the key ingest computes for a request is the hash of             *)
(* appId|kind|providerEventId when the event has a provider event id,   *)
(* else of appId|kind|messageId|eventStatus|isoTimestamp when one of    *)
(* the three is present, else of the raw body, whatever the state of    *)
(* the store at the time; two requests with the same app id and body    *)
(* get the same key.                                                    *)
C12_KeyIsFunctionOfInput ==
  /\ \A i \in Keyed : reqs[i].dedupeKey = RuleKey(i)
  /\ \A i \in Keyed : \A j \in Keyed :
        (reqs[i].appId = reqs[j].appId /\ reqs[i].rawBody = reqs[j].rawBody)
          => reqs[i].dedupeKey = reqs[j].dedupeKey
  /\ \A k \in 1..Len(raw) :
        \E i \in Keyed : reqs[i].inserted /\ raw[k].dedupe_key = RuleKey(i)

C12_Witness ==
  /\ Len(reqs) = 2
  /\ Keyed = {1, 2}
  /\ reqs[1].rawBody = "m-sent-1" /\ reqs[2].rawBody = "m-sent-1"
  /\ reqs[1].appId = reqs[2].appId
  /\ reqs[1].inserted /\ ~reqs[2].inserted
  /\ reqs[2].dedupeKey = reqs[1].dedupeKey

(* ---------------------------- C13 --------------------------------- *)
RowOf(w) == raw[CurrentRowId(wk[w])]

EventAtOf(event) == IF event.eventAt # NullTs THEN event.eventAt ELSE NowTs

(* the recipient row the applyMessageEvent of w's current row reads *)
RecipientIdSeen(w) ==
  findRecipient(View(rcpt, wk[w].rcptW), MessageEventOf(RowOf(w)).messageId,
                MessageEventOf(RowOf(w)).whatsappMessageId)

RecipientSeen(w) == View(rcpt, wk[w].rcptW)[RecipientIdSeen(w)]

(* w is about to project a message row of the given status on a          *)
(* recipient it reads in one of the given statuses                       *)
Projects(w, status, currents) ==
  /\ wk[w].pc = "row"
  /\ RowOf(w).event_kind = "MESSAGE"
  /\ MessageEventOf(RowOf(w)).status = status
  /\ RecipientIdSeen(w) # Null
  /\ RecipientSeen(w).status \in currents

(* the projection of w's current row ended as a NOOP: nothing written to *)
(* the recipient, the raw row terminal with no error                     *)
EndedAsNoop(w) ==
  /\ wk'[w].pc \in {"row", "commit"}
  /\ wk'[w].rcptW = wk[w].rcptW
  /\ CurrentRowId(wk[w]) \in DOMAIN wk'[w].rawW
  /\ wk'[w].rawW[CurrentRowId(wk[w])].processed = 1
  /\ wk'[w].rawW[CurrentRowId(wk[w])].last_error = NoMsg
  /\ wk'[w].rawW[CurrentRowId(wk[w])].attempts = RowOf(w).attempts

(* C13: a failed event projected on a recipient whose status is READ is *)
(* a NOOP: no recipient column is written, the committed recipient is   *)
(* unchanged, and the raw row becomes terminal with no error.           *)
C13_FailedAfterReadIsNoop ==
  [][\A w \in instances :
       /\ (ProcessSingleRow(w) /\ Projects(w, "failed", {"READ"})) =>
            /\ EndedAsNoop(w)
            /\ applyMessageEvent(RecipientSeen(w), MessageEventOf(RowOf(w)))
                 = RecipientSeen(w)
       /\ (Commit(w) /\ \A k \in BatchIds(w) : raw[k].event_status = "failed") =>
            \A r \in RcptIds : rcpt[r].status = "READ" => rcpt'[r] = rcpt[r]]_vars

C13_Witness ==
  \E k \in 1..Len(raw) : \E r \in RcptIds :
    /\ raw[k].event_status = "failed"
    /\ raw[k].processed = 1 /\ raw[k].last_error = NoMsg /\ raw[k].tried = 1
    /\ rcpt[r].status = "READ"
    /\ rcpt[r].failed_at = NullTs /\ rcpt[r].last_error_code = Null
    /\ k \notin rcpt[r].writers

(* ---------------------------- C14 --------------------------------- *)
NotReadNorFailed == RecipientStatuses \ {"READ", "FAILED"}

(* C14: a failed event projected on a recipient whose status is neither *)
(* READ nor FAILED is an UPDATE that sets status = FAILED, failed_at =   *)
(* the event time when it was null, and last_error_code and             *)
(* last_error_reason exactly when the event carries them.               *)
C14_FailedRule ==
  [][\A w \in instances :
       /\ (ProcessSingleRow(w) /\ Projects(w, "failed", NotReadNorFailed)) =>
            LET event == MessageEventOf(RowOf(w))
                upd == wk'[w].upd
            IN /\ wk'[w].pc = "msgUpdate"
               /\ wk'[w].rid = RecipientIdSeen(w)
               /\ "status" \in DOMAIN upd /\ upd["status"] = "FAILED"
               /\ RecipientSeen(w).failed_at = NullTs =>
                    ("failed_at" \in DOMAIN upd /\ upd["failed_at"] = EventAtOf(event))
               /\ RecipientSeen(w).failed_at # NullTs => "failed_at" \notin DOMAIN upd
               /\ event.errorCode # Null =>
                    ("last_error_code" \in DOMAIN upd
                       /\ upd["last_error_code"] = event.errorCode)
               /\ event.errorCode = Null => "last_error_code" \notin DOMAIN upd
               /\ event.errorReason # Null =>
                    ("last_error_reason" \in DOMAIN upd
                       /\ upd["last_error_reason"] = event.errorReason)
               /\ event.errorReason = Null => "last_error_reason" \notin DOMAIN upd
       /\ (ApplyMessageEvent(w) /\ "status" \in DOMAIN wk[w].upd
              /\ wk[w].upd["status"] = "FAILED") =>
            LET id == CurrentRowId(wk[w])
                after == wk'[w].rcptW[wk[w].rid]
            IN /\ after.status = "FAILED"
               /\ after.failed_at # NullTs
               /\ \A c \in DOMAIN wk[w].upd : after[c] = wk[w].upd[c]
               /\ wk'[w].rawW[id].processed = 1
               /\ wk'[w].rawW[id].last_error = NoMsg]_vars

C14_Witness ==
  \E r \in RcptIds :
    /\ rcpt[r].status = "FAILED"
    /\ rcpt[r].failed_at = 2
    /\ rcpt[r].last_error_code = "131051"
    /\ rcpt[r].last_error_reason = "Unsupported"
    /\ rcpt[r].sent_at # NullTs
    /\ Cardinality(rcpt[r].writers) = 2

(* ---------------------------- C15 --------------------------------- *)
(* the recipient row after the projection of w's current row, as the    *)
(* step from the read decides it                                        *)
RecipientAfter(w) ==
  IF wk'[w].pc = "msgUpdate" THEN ApplyUpdates(RecipientSeen(w), wk'[w].upd)
  ELSE RecipientSeen(w)

SecretRejected(i) ==
  reqs[i].secret = Null \/ reqs[i].secret # GupshupWebhookSecret

(* C16: a request whose secret header is missing or differs from the    *)
(* configured secret is answered 401 at once, the raw store is left as  *)
(* it was, and ingest is never run for it: it computes no dedupe key,   *)
(* inserts no row, and no row of the store comes from it.               *)
C16_RejectedNeverIngested ==
  [][/\ \A i \in 1..Len(reqs') :
          SecretRejected(i)' =>
            /\ reqs'[i].response = 401 /\ reqs'[i].pc = "done"
            /\ reqs'[i].dedupeKey = <<>>
            /\ ~reqs'[i].inserted /\ ~reqs'[i].threw
            /\ IF i > Len(reqs) THEN raw' = raw
               ELSE ~Ingest(i) /\ ~IngestThrows(i)
     /\ Len(raw') > Len(raw) =>
          \E i \in 1..Len(reqs) :
            /\ ~SecretRejected(i) /\ Ingest(i)
            /\ raw'[Len(raw')].app_id = reqs[i].appId]_vars

C16_Witness ==
  /\ Len(reqs) = 2
  /\ reqs[1].secret = Null /\ reqs[1].response = 401
  /\ reqs[2].secret = "wrong" /\ reqs[2].response = 401
  /\ reqs[1].rawBody = "m-sent-1"
  /\ raw = <<>>

(* ---------------------------- C17 --------------------------------- *)
(* C17: whenever a request has been answered 200, its insert has        *)
(* completed without error and a RawEvent row with the request's dedupe *)
(* key is in the store; when the call did not insert it, the row was    *)
(* inserted by another call with the same key.                          *)
C17_AckAfterInsert ==
  \A i \in 1..Len(reqs) :
    reqs[i].response = 200 =>
      /\ reqs[i].pc = "done" /\ ~reqs[i].threw
      /\ reqs[i].dedupeKey # <<>>
      /\ Cardinality(RowsWithKey(reqs[i].dedupeKey)) = 1
      /\ ~reqs[i].inserted =>
            \E j \in (1..Len(reqs)) \ {i} :
              reqs[j].inserted /\ reqs[j].dedupeKey = reqs[i].dedupeKey

C17_Witness ==
  /\ Len(reqs) = 2
  /\ reqs[1].response = 200 /\ reqs[2].response = 200
  /\ ~reqs[1].inserted /\ reqs[2].inserted
  /\ reqs[1].rawBody = "m-ev42"
  /\ Len(raw) = 1

(* ---------------------------- C18 --------------------------------- *)
Answered == { i \in 1..Len(reqs) : reqs[i].pc = "done" /\ Authenticated(i) }

(* the formats parseRawBody tells apart, and the kind normalize gives *)
ShapeOf(i) ==
  <<parseRawBody(reqs[i].rawBody).format,
    normalize(parseRawBody(reqs[i].rawBody).normalizedPayload).kind>>

(* C18: an authenticated request is answered 500 exactly when its       *)
(* ingest threw, and then it added no row and the insert was not tried  *)
(* again; every other authenticated request is answered 200, whether    *)
(* its body is empty, text that is not JSON, JSON of unknown shape or a *)
(* duplicate.                                                           *)
C18_ErrorIffIngestThrew ==
  [][/\ \A i \in Answered' :
          /\ reqs'[i].response = 500 <=> reqs'[i].threw
          /\ reqs'[i].response = 200 <=> ~reqs'[i].threw
          /\ reqs'[i].threw => ~reqs'[i].inserted
     /\ \A i \in 1..Len(reqs) :
          /\ IngestThrows(i) => raw' = raw
          /\ reqs[i].threw => (~Ingest(i) /\ ~IngestThrows(i))]_vars

C18_Witness ==
  /\ Answered = {1, 2}
  /\ reqs[1].threw /\ reqs[1].response = 500
  /\ ShapeOf(1) = <<"json", "UNKNOWN">>
  /\ ShapeOf(2) = <<"json", "UNKNOWN">>
  /\ reqs[2].response = 200 /\ reqs[2].inserted
  /\ reqs[1].appId = reqs[2].appId /\ reqs[1].rawBody = reqs[2].rawBody
  /\ Len(raw) = 1

(* ---------------------------- C19 --------------------------------- *)
ConnectionsOf(p) == { w \in instances : Host(w) = p }

(* the connections of process p on which a processBatch is executing *)
Executing(p) == { w \in ConnectionsOf(p) : InTransaction(w) }

(* C19: in one process at most one processBatch executes at a time; the *)
(* guard is set exactly while one executes; a timer fire during a tick  *)
(* returns without touching a connection or a row; a tick starts only   *)
(* when none is running; and the end of a tick, by commit or by a       *)
(* thrown error, clears the guard.                                      *)
C19_OneTickPerProcess ==
  [][\A p \in Workers :
       /\ Cardinality(Executing(p)') <= 1
       /\ proc'.running[p] <=> (Executing(p)' # {})
       /\ SafeTickSkipped(p) =>
            /\ proc.running[p]
            /\ wk' = wk /\ raw' = raw
            /\ proc'.running = proc.running
       /\ \A w \in ConnectionsOf(p) :
            /\ LockNextBatch(w) => (~proc.running[p] /\ Executing(p) = {})
            /\ (Commit(w) \/ Rollback(w) \/ ConnectionClosed(w)) =>
                 ~proc'.running[p]]_vars

C19_Witness ==
  /\ proc.skipped = 1
  /\ proc.timer["w1"]
  /\ ~proc.running["w1"]
  /\ faultsLeft = MaxFaults - 1
  /\ raw[1].processed = 1
  /\ raw[2].processed = 0 /\ raw[2].attempts = 0
  /\ \A w \in Workers : ~InTransaction(w)

(* ---------------------------- C20 --------------------------------- *)
(* C20: no tick starts after the worker's onModuleDestroy, and the pool *)
(* is ended only when no tick of the process has a transaction open.    *)
C20_GracefulShutdown ==
  [][\A p \in Workers :
       /\ \A w \in ConnectionsOf(p) : LockNextBatch(w) => proc.timer[p]
       /\ PoolEnd(p) => Executing(p) = {}]_vars

(* the first half alone: a tick starts only while the interval is armed *)
NoTickAfterDestroy ==
  [][\A p \in Workers : \A w \in ConnectionsOf(p) :
       (~proc.timer[p]) => ~LockNextBatch(w)]_vars

(* ---------------------------- C21 --------------------------------- *)
(* C21: when a tick fails at transaction scope, the rollback commits    *)
(* nothing of the tick (no raw row change, no projection write), the    *)
(* process goes on with its guard cleared, its timer armed and its pool *)
(* open, and every row of the batch is pending and unlocked again, so   *)
(* that a later tick of any instance can claim it.                      *)
C21_RollbackDiscardsTick ==
  [][\A w \in Workers :
       Rollback(w) =>
         /\ raw' = raw /\ rcpt' = rcpt /\ tpl' = tpl /\ ver' = ver
         /\ cur' = cur /\ cev' = cev
         /\ wk'[w] = IdleWorker
         /\ ~proc'.running[Host(w)]
         /\ proc'.timer = proc.timer /\ proc'.pool = proc.pool
         /\ \A k \in BatchIds(w) :
              /\ raw'[k].processed = 0
              /\ \A o \in instances : k \in Candidates(o)']_vars

C21_Witness ==
  /\ faultsLeft = MaxFaults - 1
  /\ \A w \in Workers : ~InTransaction(w)
  /\ \A k \in 1..Len(raw) :
       /\ raw[k].processed = 1
       /\ raw[k].failed = 0 /\ raw[k].attempts = 0 /\ raw[k].tried = 1
  /\ \E r \in RcptIds : rcpt[r].writers # {}

(* ---------------------------- C22 --------------------------------- *)
NoRecipientFor(event) ==
  \A r \in RcptIds :
    /\ (event.messageId = Null \/ rcpt[r].gupshup_message_id # event.messageId)
    /\ (event.whatsappMessageId = Null
          \/ rcpt[r].whatsapp_message_id # event.whatsappMessageId)

NoTemplateFor(event) ==
  \A t \in TplIds :
    /\ (event.templateProviderId = Null
          \/ tpl[t].provider_template_id # event.templateProviderId)
    /\ (event.templateName = Null \/ tpl[t].name # event.templateName)

(* the soft condition a row meets, as the text recorded for it; Null    *)
(* when the row meets none                                              *)
SoftReason(row) ==
  CASE row.event_kind = "MESSAGE" ->
         IF MessageEventOf(row).status = Null THEN "Unrecognized payload"
         ELSE IF NoRecipientFor(MessageEventOf(row)) THEN "Recipient not found"
         ELSE Null
    [] row.event_kind = "TEMPLATE" ->
         IF row.app_id # "A" THEN "Integration not found for appId"
         ELSE IF TemplateEventOf(row).templateStatus = Null THEN "Unrecognized payload"
         ELSE IF NoTemplateFor(TemplateEventOf(row)) THEN "Template not found"
         ELSE Null
    [] row.event_kind = "USER" ->
         IF row.app_id # "A" THEN "Integration not found for appId"
         ELSE IF UserEventOf(row).phone = Null THEN "User not found for phone"
         ELSE IF UserEventOf(row).consentEvent = Null THEN "Unrecognized payload"
         ELSE IF UserEventOf(row).consentEvent = "BLOCKED" /\ ~blockedAsOptOut THEN Null
         ELSE IF UserEventOf(row).phone # "+15551234567" THEN "User not found for phone"
         ELSE Null
    [] OTHER -> "Unrecognized payload"

SoftIds == { k \in 1..Len(raw) : SoftReason(raw[k]) # Null }

(* C22: the handler of a row that meets a soft condition marks it       *)
(* processed = 1 with attempts unchanged and last_error the reason of   *)
(* the condition, and writes no projected table; once committed the row *)
(* keeps that mark, has been handled once, is in no batch, and no       *)
(* committed projection row or consent event comes from it.             *)
C22_SoftConditionIsTerminal ==
  [][/\ \A w \in instances :
          (ProcessSingleRow(w) /\ CurrentRowId(wk[w]) \in SoftIds) =>
            LET id == CurrentRowId(wk[w])
            IN /\ wk'[w].pc \in {"row", "commit"}
               /\ wk'[w].rawW[id].processed = 1
               /\ wk'[w].rawW[id].processed_at = NowTs
               /\ wk'[w].rawW[id].attempts = RawView(wk[w], id).attempts
               /\ wk'[w].rawW[id].last_error.text = SoftReason(raw[id])
               /\ wk'[w].rcptW = wk[w].rcptW /\ wk'[w].tplW = wk[w].tplW
               /\ wk'[w].verW = wk[w].verW /\ wk'[w].curW = wk[w].curW
               /\ wk'[w].cevW = wk[w].cevW
     /\ \A k \in SoftIds :
          /\ \A r \in RcptIds : k \notin rcpt'[r].writers
          /\ \A t \in TplIds : k \notin tpl'[t].writers /\ k \notin ver'[t].writers
          /\ \A c \in CurKeys : k \notin cur'[c].writers
          /\ \A e \in 1..Len(cev') : cev'[e].raw_id # k
          /\ raw[k].processed = 1 =>
               /\ raw'[k] = raw[k]
               /\ raw[k].last_error.text = SoftReason(raw[k])
               /\ raw[k].tried = raw[k].failed + 1
               /\ \A w \in instances : k \notin BatchIds(w)']_vars

C22_Witness ==
  /\ Len(raw) = 2
  /\ SoftReason(raw[1]) = "Template not found"
  /\ SoftReason(raw[2]) = "User not found for phone"
  /\ raw[2].payload_json.phone = Null
  /\ \A k \in 1..2 :
       /\ raw[k].processed = 1 /\ raw[k].attempts = 0 /\ raw[k].tried = 1
       /\ raw[k].last_error.text = SoftReason(raw[k])
  /\ \A w \in Workers : ~InTransaction(w)
  /\ tpl = [t \in TplIds |-> NewTemplate]
  /\ cev = <<>>

(* ---------------------------- C23 --------------------------------- *)
(* the USER rows whose token is BLOCKED, of an app with an integration  *)
(* and a known phone                                                    *)
BlockedIds ==
  { k \in 1..Len(raw) :
      /\ raw[k].event_kind = "USER" /\ raw[k].app_id = "A"
      /\ UserEventOf(raw[k]).consentEvent = "BLOCKED"
      /\ UserEventOf(raw[k]).phone = "+15551234567" }

ConsentEventsFrom(k) == { e \in 1..Len(cev) : cev[e].raw_id = k }

BlockedDropped ==
  /\ ~blockedAsOptOut
  /\ BlockedIds = {1}
  /\ raw[1].processed = 1 /\ raw[1].attempts = 0
  /\ raw[1].last_error.text = "Blocked event ignored by configuration"
  /\ cev = <<>>
  /\ \A c \in CurKeys : ~cur[c].present

(* ---------------------------- C24 --------------------------------- *)
(* the consent rows of the store that are for the pair c *)
ConsentRowsOf(c) ==
  { k \in 1..Len(raw) : raw[k].event_kind = "USER" /\ ConsentKey(raw[k]) = c }

(* the latest event time of the given projected type among the rows ks *)
LatestOf(ks, type) ==
  LET times == { UserEventOf(raw[k]).eventAt :
                   k \in { x \in ks :
                             normalizeConsentEvent(UserEventOf(raw[x]).consentEvent) = type } }
  IN IF times = {} THEN NullTs ELSE CHOOSE t \in times : \A u \in times : u <= t

(* C24: consent projections of two instances for one (user, company)    *)
(* are serialized, also when the pair has no row yet: no upsert fails   *)
(* because of the other instance's upsert, and once both rows are       *)
(* processed the one current row holds the maxima over both events.     *)
C24_SerializedUpserts ==
  [][\A w \in instances :
       WriteMarketingCurrent(w) =>
         LET id == CurrentRowId(wk[w])
         IN /\ wk'[w].rawW[id].processed = 1
            /\ wk'[w].rawW[id].last_error = NoMsg
            /\ wk'[w].rawW[id].attempts = RawView(wk[w], id).attempts
            /\ \A c \in CurKeys :
                 (c = ConsentKey(raw[id])
                    /\ \A k \in ConsentRowsOf(c) \ {id} : raw[k].processed = 1) =>
                   /\ wk'[w].curW[c].last_opt_in_at = LatestOf(ConsentRowsOf(c), "OPT_IN")
                   /\ wk'[w].curW[c].last_opt_out_at = LatestOf(ConsentRowsOf(c), "OPT_OUT")]_vars

(* ---------------------------- C25 --------------------------------- *)
(* the strings and numbers of a value, as they are printed *)
RECURSIVE Printed(_)
Printed(value) ==
  CASE value.t \in {"str", "num"} -> {value.s}
    [] value.t = "arr" -> UNION { Printed(value.items[i]) : i \in 1..Len(value.items) }
    [] value.t = "obj" -> UNION { Printed(value.f[key]) : key \in DOMAIN value.f }
    [] OTHER -> {}

HasDigitRun(str, n) == \E i \in 1..Len(str) : str[i].c = "d" /\ str[i].n >= n

(* C25: no emitted line holds a digit sequence of 5 or more digits:     *)
(* every phone number of the input, a string or a number under any key, *)
(* comes out as *** and its last four characters.                       *)
C25_NoUnmaskedPhone ==
  \A i \in 1..Len(log) : \A str \in Printed(log[i].out) : ~HasDigitRun(str, 5)

(* what does hold: a string under a phone key, and a string that is     *)
(* nothing but a phone number of 8 to 15 digits, are emitted masked     *)
MaskedWhereRecognized ==
  \A i \in 1..Len(log) :
    /\ (log[i].meta.t = "str" /\ looksLikePhone(log[i].meta.s)) =>
         log[i].out.s = <<Run("*", 3)>> \o sliceLast(trim(log[i].meta.s), 4)
    /\ (log[i].meta.t = "obj" /\ DOMAIN log[i].meta.f = {"phone"}
          /\ log[i].meta.f["phone"].t = "str") =>
         ~HasDigitRun(log[i].out.f["phone"].s, 5)

(* ---------------------------- C26 --------------------------------- *)
(* C26: a row whose committed processed is 1 is frozen: no step enters  *)
(* it into the batch of any worker instance, and no step changes its    *)
(* committed attempts, last_error or processed_at.                      *)
C26_TerminalIsFrozen ==
  [][\A k \in 1..Len(raw) : raw[k].processed = 1 =>
       /\ raw'[k].attempts = raw[k].attempts
       /\ raw'[k].last_error = raw[k].last_error
       /\ raw'[k].processed_at = raw[k].processed_at
       /\ \A w \in Workers : k \in BatchIds(w)' => k \in BatchIds(w)]_vars

(* a worker that finished a row after a failed attempt is in a later    *)
(* tick, holding another row                                            *)
C26_Witness ==
  \E k \in 1..Len(raw) : \E w \in Workers :
    /\ raw[k].processed = 1 /\ raw[k].attempts > 0
    /\ w \in raw[k].done_by
    /\ InTransaction(w) /\ wk[w].batch # <<>> /\ k \notin BatchIds(w)

(* ---------------------------- C27 --------------------------------- *)
MessageStatuses == {"accepted", "sent", "delivered", "read", "failed"}

(* the recipient statuses an incoming status upgrades, and the one it    *)
(* repeats, written out pair by pair                                     *)
UpgradedBy(incoming) ==
  CASE incoming = "accepted" -> {"PENDING", "SKIPPED"}
    [] incoming = "sent" -> {"PENDING", "SKIPPED", "SUBMITTED", "RETRYING"}
    [] incoming = "delivered" -> {"PENDING", "SKIPPED", "SUBMITTED", "RETRYING", "SENT"}
    [] incoming = "read" ->
         {"PENDING", "SKIPPED", "SUBMITTED", "RETRYING", "SENT", "DELIVERED"}
    [] incoming = "failed" ->
         {"PENDING", "SKIPPED", "SUBMITTED", "RETRYING", "SENT", "DELIVERED"}

RepeatedBy(incoming) ==
  CASE incoming = "accepted" -> "SUBMITTED"
    [] incoming = "sent" -> "SENT"
    [] incoming = "delivered" -> "DELIVERED"
    [] incoming = "read" -> "READ"
    [] incoming = "failed" -> "FAILED"

TransitionOf(current, incoming) ==
  IF current \in UpgradedBy(incoming) THEN "UPGRADE"
  ELSE IF current = RepeatedBy(incoming) THEN "SAME"
  ELSE "IGNORE"

(* C27: for every pair (current recipient status, incoming message      *)
(* status) that a worker projects, evaluateTransition returns the entry *)
(* of the table: failed is IGNORE on READ, SAME on FAILED, UPGRADE      *)
(* otherwise; any other status is IGNORE on FAILED, UPGRADE on a lower  *)
(* rank, SAME on the target itself and IGNORE otherwise, accepted on    *)
(* RETRYING included. The step acts on the decision: UPGRADE collects   *)
(* the target status, SAME collects no status, IGNORE writes nothing.   *)
C27_TransitionTable ==
  [][\A w \in instances : \A incoming \in MessageStatuses :
       (ProcessSingleRow(w) /\ Projects(w, incoming, RecipientStatuses)) =>
         LET current == RecipientSeen(w).status
             target == TARGET_STATUS_BY_MESSAGE_EVENT(incoming)
             decision == evaluateTransition(current, target, incoming)
         IN /\ decision = TransitionOf(current, incoming)
            /\ decision = "UPGRADE" =>
                 /\ wk'[w].pc = "msgUpdate"
                 /\ "status" \in DOMAIN wk'[w].upd
                 /\ wk'[w].upd["status"] = target
            /\ decision = "SAME" =>
                 \/ EndedAsNoop(w)
                 \/ wk'[w].pc = "msgUpdate" /\ "status" \notin DOMAIN wk'[w].upd
            /\ decision = "IGNORE" => EndedAsNoop(w)]_vars

(* an accepted event met a RETRYING recipient and was dropped *)
C27_Witness ==
  \E k \in 1..Len(raw) : \E r \in RcptIds :
    /\ raw[k].event_status = "accepted"
    /\ raw[k].processed = 1 /\ raw[k].last_error = NoMsg /\ raw[k].tried = 1
    /\ rcpt[r].status = "RETRYING"
    /\ rcpt[r].accepted_at = NullTs
    /\ k \notin rcpt[r].writers

(* ---------------------------- C28 --------------------------------- *)
Reached == {"DELIVERED", "READ"}

(* C28: an UPDATE that moves a recipient to DELIVERED or READ leaves    *)
(* reached_at non-null in the same statement, the commit that publishes *)
(* the move publishes a non-null reached_at with it, and a non-null     *)
(* reached_at never becomes null again: no recipient that projection    *)
(* moved to DELIVERED or READ has reached_at = null.                    *)
C28_ReachedAtWithStatus ==
  [][/\ \A w \in instances :
          (ApplyMessageEvent(w) /\ "status" \in DOMAIN wk[w].upd
              /\ wk[w].upd["status"] \in Reached) =>
            /\ wk'[w].rcptW[wk[w].rid].status = wk[w].upd["status"]
            /\ wk'[w].rcptW[wk[w].rid].reached_at # NullTs
     /\ \A r \in RcptIds :
          /\ (rcpt'[r].status \in Reached /\ rcpt'[r].status # rcpt[r].status) =>
               rcpt'[r].reached_at # NullTs
          /\ rcpt[r].reached_at # NullTs => rcpt'[r].reached_at # NullTs]_vars

(* a committed recipient that an upgrade moved to READ without passing  *)
(* through the sent or accepted events                                  *)
C28_Witness ==
  \E r \in RcptIds :
    /\ rcpt[r].status = "READ"
    /\ rcpt[r].last_event_at # NullTs
    /\ rcpt[r].reached_at = rcpt[r].last_event_at
    /\ rcpt[r].sent_at = NullTs
    /\ rcpt[r].writers # {}

(* ---------------------------- C29 --------------------------------- *)
(* the consent type w's current row projects *)
TypeOf(w) == normalizeConsentEvent(UserEventOf(RowOf(w)).consentEvent)

(* neither timestamp of the row decreases or returns to null (null is   *)
(* below every time), and the row stays                                 *)
Grows(before, after) ==
  /\ after.last_opt_in_at >= before.last_opt_in_at
  /\ after.last_opt_out_at >= before.last_opt_out_at
  /\ before.present => after.present

(* C29: for one (user_id, company_id), last_opt_in_at and               *)
(* last_opt_out_at never decrease and never return to null, in the row  *)
(* an upsert writes and in the committed row; an OPT_IN upsert leaves   *)
(* last_opt_out_at as it was and an OPT_OUT upsert leaves               *)
(* last_opt_in_at as it was.                                            *)
C29_TimestampsOnlyGrow ==
  [][/\ \A c \in CurKeys : Grows(cur[c], cur'[c])
     /\ \A w \in instances :
          (WriteMarketingCurrent(w) /\ ConsentKey(RowOf(w)) \in DOMAIN wk'[w].curW) =>
            LET c == ConsentKey(RowOf(w))
                before == View(cur, wk[w].curW)[c]
                after == wk'[w].curW[c]
            IN /\ Grows(before, after)
               /\ TypeOf(w) = "OPT_IN" => after.last_opt_out_at = before.last_opt_out_at
               /\ TypeOf(w) = "OPT_OUT" => after.last_opt_in_at = before.last_opt_in_at
     /\ \A w \in instances : \A type \in {"OPT_IN", "OPT_OUT"} :
          (Commit(w) /\ \A k \in BatchIds(w) :
              normalizeConsentEvent(UserEventOf(raw[k]).consentEvent) = type) =>
            \A c \in CurKeys :
              IF type = "OPT_IN"
                THEN cur'[c].last_opt_out_at = cur[c].last_opt_out_at
                ELSE cur'[c].last_opt_in_at = cur[c].last_opt_in_at]_vars

(* an older opt-in has been written over the committed row of a newer  *)
(* one and waits for its commit: the timestamp is the newer one          *)
C29_Witness ==
  \E c \in CurKeys : \E w \in instances : \E k \in BatchIds(w) :
    /\ wk[w].pc = "commit"
    /\ cur[c].present /\ cur[c].last_opt_in_at = 2
    /\ c \in DOMAIN wk[w].curW
    /\ k \in wk[w].curW[c].writers
    /\ wk[w].curW[c].last_opt_in_at = 2
    /\ UserEventOf(raw[k]).eventAt = 1
    /\ normalizeConsentEvent(UserEventOf(raw[k]).consentEvent) = "OPT_IN"

(* ---------------------------- C30 --------------------------------- *)
(* a template row carries a reason or a category only when REJECTED *)
ReasonOnlyIfRejected(row) ==
  (row.rejection_reason # Null \/ row.correct_category # Null) => row.status = "REJECTED"

(* C30: after every template projection the template row has            *)
(* rejection_reason and correct_category non-null only if its status is *)
(* REJECTED, in the row the UPDATE writes and in every committed row a  *)
(* projection wrote; an UPDATE to APPROVED, PENDING or SUBMITTED leaves *)
(* both null, whatever the row held and whatever the event carries.     *)
C30_ReasonOnlyIfRejected ==
  [][/\ \A t \in TplIds : tpl'[t].writers # {} => ReasonOnlyIfRejected(tpl'[t])
     /\ \A w \in instances :
          UpdateTemplateStatus(w) =>
            LET status == TemplateEventOf(RowOf(w)).templateStatus
                after == wk'[w].tplW[wk[w].tid]
            IN /\ after.status = status
               /\ ReasonOnlyIfRejected(after)
               /\ status \in {"APPROVED", "PENDING", "SUBMITTED"} =>
                    /\ after.rejection_reason = Null
                    /\ after.correct_category = Null]_vars

(* a worker has projected a later status over a committed REJECTED row  *)
(* that holds its reason and category: the written row holds neither    *)
C30_Witness ==
  \E t \in TplIds : \E w \in instances :
    /\ tpl[t].status = "REJECTED"
    /\ tpl[t].rejection_reason # Null /\ tpl[t].correct_category # Null
    /\ tpl[t].writers # {}
    /\ t \in DOMAIN wk[w].tplW
    /\ wk[w].tplW[t].status \in {"APPROVED", "PENDING", "SUBMITTED"}
    /\ wk[w].tplW[t].rejection_reason = Null
    /\ wk[w].tplW[t].correct_category = Null

(* ---------------------------- C31 --------------------------------- *)
(* C31: after every template projection on a template that has a       *)
(* version, the latest version mirrors the template row: same status    *)
(* and same rejection_reason.                                           *)
C31_VersionMirrorsTemplate ==
  [][\A w \in instances :
       (UpdateLatestTemplateVersion(w) /\ View(ver, wk[w].verW)[wk[w].tid].present) =>
         LET template == View(tpl, wk'[w].tplW)[wk[w].tid]
             version == View(ver, wk'[w].verW)[wk[w].tid]
         IN /\ version.status = template.status
            /\ version.rejection_reason = template.rejection_reason]_vars

(* what the two UPDATEs do give: the status is mirrored, and the reason *)
(* is mirrored by a REJECTED projection                                 *)
StatusMirrored ==
  [][\A w \in instances :
       (UpdateLatestTemplateVersion(w) /\ View(ver, wk[w].verW)[wk[w].tid].present) =>
         LET template == View(tpl, wk'[w].tplW)[wk[w].tid]
             version == View(ver, wk'[w].verW)[wk[w].tid]
         IN /\ version.status = template.status
            /\ template.status = "REJECTED" =>
                 version.rejection_reason = template.rejection_reason]_vars

(* ---------------------------- C32 --------------------------------- *)
(* w is about to project a template row of a known integration with a   *)
(* recognized status                                                    *)
ResolvesTemplate(w) ==
  /\ wk[w].pc = "row"
  /\ RowOf(w).event_kind = "TEMPLATE"
  /\ findActiveByAppId(RowOf(w).app_id).found
  /\ TemplateEventOf(RowOf(w)).templateStatus # Null

(* C32: an event that carries a templateProviderId is resolved by       *)
(* (integration_id, provider_template_id) alone; the lookup by          *)
(* (company_id, name) is used only when the event carries no            *)
(* templateProviderId; when the applicable lookup finds nothing the row *)
(* is terminal with last_error "Template not found".                    *)
C32_ResolutionOrder ==
  [][\A w \in instances :
       (ProcessSingleRow(w) /\ ResolvesTemplate(w)) =>
         LET event == TemplateEventOf(RowOf(w))
             integration == findActiveByAppId(RowOf(w).app_id)
             table == View(tpl, wk[w].tplW)
             applicable ==
               IF event.templateProviderId # Null
                 THEN findTemplateByProviderId(table, integration.id,
                                               event.templateProviderId)
               ELSE IF event.templateName # Null
                 THEN findTemplateByName(table, integration.company_id, event.templateName)
               ELSE Null
             id == CurrentRowId(wk[w])
         IN IF applicable = Null
              THEN /\ id \in DOMAIN wk'[w].rawW
                   /\ wk'[w].rawW[id].processed = 1
                   /\ wk'[w].rawW[id].last_error.text = "Template not found"
                   /\ wk'[w].tplW = wk[w].tplW
              ELSE wk'[w].pc = "tplUpdate" /\ wk'[w].tid = applicable]_vars

(* what the handler does: the name is looked up whenever the provider   *)
(* id found nothing and the event has a name                            *)
NameIsFallback ==
  [][\A w \in instances :
       (ProcessSingleRow(w) /\ ResolvesTemplate(w)) =>
         LET event == TemplateEventOf(RowOf(w))
             integration == findActiveByAppId(RowOf(w).app_id)
             table == View(tpl, wk[w].tplW)
             byId == IF event.templateProviderId # Null
                       THEN findTemplateByProviderId(table, integration.id,
                                                     event.templateProviderId)
                       ELSE Null
             found == IF byId # Null THEN byId
                      ELSE IF event.templateName # Null
                        THEN findTemplateByName(table, integration.company_id,
                                                event.templateName)
                      ELSE Null
             id == CurrentRowId(wk[w])
         IN IF found = Null
              THEN /\ id \in DOMAIN wk'[w].rawW
                   /\ wk'[w].rawW[id].processed = 1
                   /\ wk'[w].rawW[id].last_error.text = "Template not found"
              ELSE wk'[w].pc = "tplUpdate" /\ wk'[w].tid = found]_vars

(* ---------------------------- C33 --------------------------------- *)
(* the template rule on a payload: a recognized template status, a      *)
(* template name or a template provider id is present, and the status   *)
(* is recognized or the event-type hint contains "template"             *)
TemplateRule(doc) ==
  LET recognized ==
        mapTemplateStatus(pickFirst(<<doc.tplStatus, doc.status, doc.stStatus>>)) # Null
  IN /\ recognized \/ ~IsEmpty(doc.tplName) \/ ~IsEmpty(doc.tplId)
     /\ recognized \/ hintIncludesTemplate(doc.event)

MessageRule(doc) == normalizeMessage(doc).kind = "MESSAGE"

UserRule(doc) == normalizeUser(doc).kind = "USER"

RowsDone(w) == { wk[w].batch[n] : n \in 1..(wk[w].i - 1) }

(* C35: within one tick a row whose projection threw, its failed        *)
(* attempt recorded, does not stop the batch: the loop goes on with the *)
(* next row of the batch, in order, keeping what the rows before wrote; *)
(* the loop reaches the commit only after the last row, and the commit  *)
(* publishes the failed attempt together with the terminal marks and    *)
(* the projections of the other rows.                                   *)
C35_FailedRowDoesNotStopBatch ==
  [][\A w \in instances :
       /\ \A reason \in ErrorReasons :
            StatementThrows(w, reason) =>
              LET id == CurrentRowId(wk[w])
              IN /\ wk'[w].batch = wk[w].batch
                 /\ wk'[w].rawW[id].attempts = raw[id].attempts + 1
                 /\ \A k \in RowsDone(w) : wk'[w].rawW[k] = wk[w].rawW[k]
                 /\ wk'[w].rcptW = wk[w].rcptW /\ wk'[w].tplW = wk[w].tplW
                 /\ wk'[w].curW = wk[w].curW /\ wk'[w].cevW = wk[w].cevW
                 /\ IF wk[w].i < Len(wk[w].batch)
                      THEN wk'[w].pc = "row" /\ wk'[w].i = wk[w].i + 1
                      ELSE wk'[w].pc = "commit"
       /\ (wk[w].pc # "commit" /\ wk'[w].pc = "commit") =>
            /\ wk[w].i = Len(wk[w].batch)
            /\ \A k \in BatchIds(w) : k \in DOMAIN wk'[w].rawW /\ wk'[w].rawW[k].tried > raw[k].tried
       /\ Commit(w) =>
            /\ \A k \in BatchIds(w) : raw'[k] = wk[w].rawW[k]
            /\ rcpt' = View(rcpt, wk[w].rcptW) /\ tpl' = View(tpl, wk[w].tplW)
            /\ ver' = View(ver, wk[w].verW) /\ cur' = View(cur, wk[w].curW)
            /\ cev' = cev \o wk[w].cevW]_vars

(* one tick has committed a failed first row, pending with attempts 1,  *)
(* together with the terminal mark and the projection of the second row *)
C35_Witness ==
  /\ Len(raw) = 2
  /\ raw[1].processed = 0 /\ raw[1].attempts = 1 /\ raw[1].tried = 1
  /\ raw[2].processed = 1 /\ raw[2].last_error = NoMsg /\ raw[2].tried = 1
  /\ raw[1].done_by = {} /\ raw[2].done_by # {}
  /\ \A w \in instances : wk[w].pc = "idle"
  /\ \/ \E r \in RcptIds : 2 \in rcpt[r].writers
     \/ \E t \in TplIds : 2 \in tpl[t].writers
     \/ \E c \in CurKeys : 2 \in cur[c].writers

(* ---------------------------- C36 --------------------------------- *)
(* C36: two authenticated ingest calls with different app_id values     *)
(* never share a dedupe key, and each creates its own raw row, whatever *)
(* their bodies.                                                        *)
C36_KeysApartAcrossApps ==
  \A i \in Keyed : \A j \in Keyed :
    reqs[i].appId # reqs[j].appId =>
      /\ reqs[i].dedupeKey # reqs[j].dedupeKey
      /\ reqs[i].inserted /\ reqs[j].inserted

(* what the key rules give: calls of different apps share a key only    *)
(* under the raw-body rule, with byte-identical bodies                  *)
SharedOnlyByBody ==
  \A i \in Keyed : \A j \in Keyed :
    (reqs[i].appId # reqs[j].appId /\ reqs[i].dedupeKey = reqs[j].dedupeKey) =>
      /\ reqs[i].rawBody = reqs[j].rawBody
      /\ reqs[i].dedupeKey = sha256(<<reqs[i].rawBody>>)

(* ---------------------------- C37 --------------------------------- *)
EventOfReq(i) == normalize(parseRawBody(reqs[i].rawBody).normalizedPayload)

(* the entity an event is about *)
EntityOf(event) ==
  CASE event.kind = "USER" -> <<event.phone>>
    [] event.kind = "TEMPLATE" -> <<event.templateProviderId, event.templateName>>
    [] event.kind = "MESSAGE" -> <<event.messageId, event.whatsappMessageId>>
    [] OTHER -> <<>>

(* C37: two ingested events of one app_id that carry no provider event  *)
(* id and are about different entities (another phone, another template *)
(* id or name, another whatsappMessageId without a messageId) get       *)
(* different keys and each creates its own raw row, also when kind,     *)
(* status and timestamp are equal.                                      *)
C37_DistinctEventsKept ==
  \A i \in Keyed : \A j \in Keyed :
    (/\ reqs[i].appId = reqs[j].appId
     /\ EventOfReq(i).kind = EventOfReq(j).kind
     /\ EventOfReq(i).kind \in {"USER", "TEMPLATE", "MESSAGE"}
     /\ EventOfReq(i).providerEventId = Null /\ EventOfReq(j).providerEventId = Null
     /\ EntityOf(EventOfReq(i)) # EntityOf(EventOfReq(j))) =>
      /\ reqs[i].dedupeKey # reqs[j].dedupeKey
      /\ reqs[i].inserted /\ reqs[j].inserted

(* what the key rules give: stored events of one app without a provider *)
(* event id share a key exactly when kind, messageId, status and        *)
(* timestamp are equal, or nothing of these is present and the bodies   *)
(* are equal                                                            *)
SharedByKindStatusTime ==
  \A i \in Keyed : \A j \in Keyed :
    (/\ reqs[i].appId = reqs[j].appId
     /\ EventOfReq(i).providerEventId = Null /\ EventOfReq(j).providerEventId = Null
     /\ reqs[i].dedupeKey = reqs[j].dedupeKey) =>
      \/ reqs[i].rawBody = reqs[j].rawBody
      \/ /\ EventOfReq(i).kind = EventOfReq(j).kind
         /\ pickMessageId(EventOfReq(i)) = pickMessageId(EventOfReq(j))
         /\ pickEventStatus(EventOfReq(i)) = pickEventStatus(EventOfReq(j))
         /\ EventOfReq(i).eventAt = EventOfReq(j).eventAt

(* ---------------------------- C38 --------------------------------- *)
(* C38: with the timer firing and the statements of a tick completing,  *)
(* and transactions that commit after finitely many rollbacks, every    *)
(* raw row is eventually terminal and stays so: a row that keeps        *)
(* failing is finalized after MAX_ATTEMPTS + 1 failed attempts and the  *)
(* rows behind it are then processed.                                   *)
C38_EveryRowTerminates ==
  <>[](\A k \in 1..Len(raw) : raw[k].processed = 1)

(* the older row filled every batch until its failed attempt number     *)
(* MAX_ATTEMPTS + 1 finalized it, and the newer row was processed after *)
C38_Witness ==
  /\ Len(raw) = 2
  /\ raw[1].processed = 1 /\ raw[1].attempts = MaxAttempts + 1
  /\ raw[1].failed = MaxAttempts + 1
  /\ raw[2].processed = 1 /\ raw[2].attempts = 0 /\ raw[2].tried = 1

(* ---------------------------- C39 --------------------------------- *)
(* every consent row of the pair c carries its own timestamp and has    *)
(* been projected onto the committed current row                        *)
AllProjected(c) ==
  /\ ConsentRowsOf(c) # {}
  /\ \A k \in ConsentRowsOf(c) :
       /\ UserEventOf(raw[k]).eventAt # NullTs
       /\ raw[k].processed = 1
       /\ k \in cur[c].writers

(* C39: once all consent events of a (user_id, company_id) pair, each   *)
(* with an explicit timestamp, are projected, the current row is a      *)
(* function of the set of events, whatever the order of processing:     *)
(* last_opt_in_at and last_opt_out_at are the latest opt-in and opt-out *)
(* times of the set and the status is computed from these two.          *)
C39_FinalRowIsOrderFree ==
  \A c \in CurKeys :
    AllProjected(c) =>
      LET optIn == LatestOf(ConsentRowsOf(c), "OPT_IN")
          optOut == LatestOf(ConsentRowsOf(c), "OPT_OUT")
      IN /\ cur[c].present
         /\ cur[c].last_opt_in_at = optIn
         /\ cur[c].last_opt_out_at = optOut
         /\ cur[c].status = computeStatus(optIn, optOut)

(* the opt-out of time 2 was committed first and the opt-in of time 1   *)
(* after it, against the order of emission: the status is OPT_OUT       *)
C39_Witness ==
  \E c \in CurKeys :
    /\ AllProjected(c)
    /\ ConsentRowsOf(c) = {1, 2}
    /\ UserEventOf(raw[1]).eventAt = 2 /\ UserEventOf(raw[1]).consentEvent = "OPT_OUT"
    /\ UserEventOf(raw[2]).eventAt = 1 /\ UserEventOf(raw[2]).consentEvent = "OPT_IN"
    /\ Len(cev) = 2 /\ cev[1].raw_id = 1 /\ cev[2].raw_id = 2
    /\ raw[1].attempts = 0 /\ raw[2].attempts = 0
    /\ cur[c].status = "OPT_OUT"

(* the same two events committed in the order of their timestamps *)
ProjectedInTimeOrder ==
  \E c \in CurKeys :
    /\ AllProjected(c)
    /\ ConsentRowsOf(c) = {1, 2}
    /\ UserEventOf(raw[1]).eventAt = 2 /\ UserEventOf(raw[1]).consentEvent = "OPT_OUT"
    /\ UserEventOf(raw[2]).eventAt = 1 /\ UserEventOf(raw[2]).consentEvent = "OPT_IN"
    /\ Len(cev) = 2 /\ cev[1].raw_id = 2 /\ cev[2].raw_id = 1
    /\ raw[1].attempts = 0 /\ raw[2].attempts = 0
    /\ cur[c].status = "OPT_OUT"

(* ---------------------------- C40 --------------------------------- *)
(* the pending accepted, sent, delivered and read rows that target r *)
PendingOn(r) ==
  { k \in 1..Len(raw) :
      /\ raw[k].event_kind = "MESSAGE"
      /\ raw[k].processed = 0
      /\ MessageEventOf(raw[k]).status \in {"accepted", "sent", "delivered", "read"}
      /\ findRecipient(rcpt, MessageEventOf(raw[k]).messageId,
                       MessageEventOf(raw[k]).whatsappMessageId) = r }

(* the highest-ranked status among initial and the targets of the rows  *)
(* ks, initial winning a tie of ranks                                   *)
HighestOf(initial, ks) ==
  LET targets == { TARGET_STATUS_BY_MESSAGE_EVENT(MessageEventOf(raw[k]).status) : k \in ks }
  IN IF \E t \in targets : STATUS_RANK(t) > STATUS_RANK(initial)
       THEN CHOOSE t \in targets : \A u \in targets : STATUS_RANK(u) <= STATUS_RANK(t)
       ELSE initial

NoFailedEvents ==
  \A k \in 1..Len(raw) : MessageEventOf(raw[k]).status # "failed"

(* C40: for a recipient that is not FAILED and the non-failed message    *)
(* events that target it, applying the events one after another gives    *)
(* in every order the highest-ranked status among the recipient's status *)
(* and the events' targets, the recipient's status winning a tie; and    *)
(* the worker's run keeps to it: no commit changes the status the        *)
(* recipient will have once the pending events are applied.              *)
C40_FinalStatusIsOrderFree ==
  /\ [](\A r \in RcptIds :
          rcpt[r].status # "FAILED" =>
            \A order \in Orders(PendingOn(r)) :
              SerialApply(rcpt[r], order, 1).status = HighestOf(rcpt[r].status, PendingOn(r)))
  /\ [][\A r \in RcptIds :
          (NoFailedEvents /\ rcpt[r].status # "FAILED") =>
            /\ rcpt'[r].status # "FAILED"
            /\ HighestOf(rcpt'[r].status, PendingOn(r)')
                 = HighestOf(rcpt[r].status, PendingOn(r))]_vars

(* delivered was applied first and the older sent after it: DELIVERED *)
C40_Witness ==
  \E r \in RcptIds :
    /\ Len(raw) = 2
    /\ raw[1].event_status = "delivered" /\ MessageEventOf(raw[1]).eventAt = 2
    /\ raw[2].event_status = "sent" /\ MessageEventOf(raw[2]).eventAt = 1
    /\ raw[1].processed = 1 /\ raw[2].processed = 1
    /\ raw[1].last_error = NoMsg /\ raw[2].last_error = NoMsg
    /\ rcpt[r].writers = {1}
    /\ rcpt[r].status = "DELIVERED"
    /\ rcpt[r].reached_at = 2
    /\ rcpt[r].accepted_at = NullTs /\ rcpt[r].sent_at = NullTs

(* the same two events in the other order of arrival: sent upgraded the  *)
(* recipient, delivered upgraded it again                                *)
SentThenDelivered ==
  \E r \in RcptIds :
    /\ Len(raw) = 2
    /\ raw[1].event_status = "sent" /\ raw[2].event_status = "delivered"
    /\ raw[1].processed = 1 /\ raw[2].processed = 1
    /\ rcpt[r].writers = {1, 2}
    /\ rcpt[r].status = "DELIVERED"

====
